---- MODULE Spec2Model ----
(***************************************************************************)
(* Invoice Detection Agent (Google Apps Script).                           *)
(*                                                                         *)
(* Model of the extraction-and-validation pipeline:                        *)
(*   - VertexAI._rateLimiter, VertexAI.extractInvoiceData,                 *)
(*     VertexAI._isValidInvoice and the numeric normalisation              *)
(*     (src/03_VertexAI.js, second definition of VertexAI),                *)
(*   - Storage (src/03_VertexAI.js),                                       *)
(*   - SheetsManager (src/unnamed/part_004),                               *)
(*   - GmailManager.processThread (src/02_Gmail.js, second definition),    *)
(*   - processInvoiceEmails / processThread / processMessage               *)
(*     (src/unnamed/part_006, second definition, lines 565-1376).          *)
(*                                                                         *)
(* JavaScript strings are sequences of one-character strings, so that      *)
(* toLowerCase, includes, trim, replace and parseFloat are computed and    *)
(* not assumed.  A missing or null string field is the empty sequence:     *)
(* every read of such a field in the code is guarded by `|| ''` or by a    *)
(* truthiness test, which treat null, undefined and '' alike.              *)
(* Numbers are integers in thousandths (778.0 is 778000, 163.38 is         *)
(* 163380).  Time is in milliseconds.                                      *)
(***************************************************************************)
EXTENDS Integers, Sequences, FiniteSets, TLC

(***************************************************************************)
(* String primitives                                                       *)
(***************************************************************************)
UpperChars ==
  <<"A","B","C","D","E","F","G","H","I","J","K","L","M",
    "N","O","P","Q","R","S","T","U","V","W","X","Y","Z","Ó">>

LowerChars ==
  <<"a","b","c","d","e","f","g","h","i","j","k","l","m",
    "n","o","p","q","r","s","t","u","v","w","x","y","z","ó">>

DigitChars == <<"0","1","2","3","4","5","6","7","8","9">>

IsDigit(c) == \E k \in 1..10 : DigitChars[k] = c

DigitVal(c) == (CHOOSE k \in 1..10 : DigitChars[k] = c) - 1

IsSpace(c) == c = " "

\* String.prototype.toLowerCase
toLowerCase(s) ==
  [i \in 1..Len(s) |->
     IF \E k \in 1..Len(UpperChars) : UpperChars[k] = s[i]
     THEN LowerChars[CHOOSE k \in 1..Len(UpperChars) : UpperChars[k] = s[i]]
     ELSE s[i]]

\* String.prototype.includes
includes(s, sub) ==
  \E i \in 0..(Len(s) - Len(sub)) : SubSeq(s, i + 1, i + Len(sub)) = sub

RECURSIVE trimStart(_)
trimStart(s) ==
  IF s # <<>> /\ IsSpace(Head(s)) THEN trimStart(Tail(s)) ELSE s

RECURSIVE trimEnd(_)
trimEnd(s) ==
  IF s # <<>> /\ IsSpace(s[Len(s)]) THEN trimEnd(SubSeq(s, 1, Len(s) - 1)) ELSE s

\* String.prototype.trim
trim(s) == trimEnd(trimStart(s))

\* String.prototype.replace(from, to) with a one-character string pattern:
\* only the FIRST occurrence is replaced.
replaceFirst(s, from, to) ==
  IF \E i \in 1..Len(s) : s[i] = from
  THEN LET p == CHOOSE i \in 1..Len(s) :
                   s[i] = from /\ \A j \in 1..(i - 1) : s[j] # from
       IN  [i \in 1..Len(s) |-> IF i = p THEN to ELSE s[i]]
  ELSE s

(***************************************************************************)
(* JavaScript values of the three monetary fields: null (also undefined),  *)
(* a number, NaN, or a string.                                             *)
(***************************************************************************)
Null == [t |-> "null", v |-> 0, s |-> <<>>]

NaN == [t |-> "nan", v |-> 0, s |-> <<>>]

Num(n) == [t |-> "num", v |-> n, s |-> <<>>]

Str(x) == [t |-> "str", v |-> 0, s |-> x]

\* number of leading decimal digits of s
RECURSIVE DigitRun(_)
DigitRun(s) ==
  IF s # <<>> /\ IsDigit(Head(s)) THEN 1 + DigitRun(Tail(s)) ELSE 0

\* value of a sequence of decimal digits
RECURSIVE DigitsToInt(_)
DigitsToInt(d) ==
  IF d = <<>> THEN 0
  ELSE 10 * DigitsToInt(SubSeq(d, 1, Len(d) - 1)) + DigitVal(d[Len(d)])

\* the fraction digits d as thousandths (digits after the third are dropped)
FracToMilli(d) ==
  IF Len(d) = 0 THEN 0
  ELSE IF Len(d) = 1 THEN DigitsToInt(d) * 100
  ELSE IF Len(d) = 2 THEN DigitsToInt(d) * 10
  ELSE DigitsToInt(SubSeq(d, 1, 3))

\* the digits of the fraction: those that follow a point at the head of rest
FractionDigits(rest) ==
  IF rest # <<>> /\ Head(rest) = "."
  THEN SubSeq(rest, 2, DigitRun(Tail(rest)) + 1)
  ELSE <<>>

\* the number read from integer digits and fraction digits, NaN without any
ParsedNumber(neg, int, frac) ==
  IF int = <<>> /\ frac = <<>> THEN NaN
  ELSE IF neg THEN Num(0 - (DigitsToInt(int) * 1000 + FracToMilli(frac)))
  ELSE Num(DigitsToInt(int) * 1000 + FracToMilli(frac))

\* parseFloat of a string without sign: ni is the length of its run of digits
parseUnsigned(neg, s1, ni) ==
  ParsedNumber(neg, SubSeq(s1, 1, ni), FractionDigits(SubSeq(s1, ni + 1, Len(s1))))

\* parseFloat of a string without leading white space
parseSigned(s0) ==
  IF s0 # <<>> /\ Head(s0) \in {"-", "+"}
  THEN parseUnsigned(Head(s0) = "-", Tail(s0), DigitRun(Tail(s0)))
  ELSE parseUnsigned(FALSE, s0, DigitRun(s0))

\* Global parseFloat: skips leading white space, reads an optional sign, the
\* longest run of digits, and, after a point, a second run of digits; what
\* follows is ignored.  Without any digit the result is NaN.
parseFloat(str) == parseSigned(trimStart(str))

\* JavaScript truthiness of a value of a monetary field
Truthy(x) ==
  \/ x.t = "num" /\ x.v # 0
  \/ x.t = "str" /\ x.s # <<>>

\* `p || null`
OrNull(p) == IF Truthy(p) THEN p ELSE Null

\* extractInvoiceData, lines 601-620, for one field:
\*   if (typeof f === 'string') f = parseFloat(f.replace(',', '.')) || null;
\*   if (f !== null && isNaN(f)) f = null;
NormalizeField(x) ==
  IF x.t = "str" THEN OrNull(parseFloat(replaceFirst(x.s, ",", ".")))
  ELSE IF x.t = "nan" THEN Null
  ELSE x

\* the numeric normalisation of a parsed AI answer
Normalize(d) ==
  [d EXCEPT !.importeSinIVA = NormalizeField(d.importeSinIVA),
            !.iva = NormalizeField(d.iva),
            !.importeTotal = NormalizeField(d.importeTotal)]

(***************************************************************************)
(* Configuration                                                           *)
(***************************************************************************)
\* CONFIG.EMPRESAS_EMISORAS
EMPRESAS_EMISORAS ==
  { <<"i","n","t","e","l","e","c","t","i","u","m">>,
    <<"i","p","r","o","n","i","c","s">>,
    <<"i","p","r","o","n","i","c","s"," ","p","r","o","g","r","a","m">>,
    <<"i","p","r","o","n","i","c","s"," ","p","r","o","g","r","a","m","m","a","b","l","e">>,
    <<"i","p","r","o","n","i","c","s"," ","p","r","o","g","r","a","m","m","a","b","l","e",
      " ","p","h","o","t","o","n","i","c","s">>,
    <<"i","p","r","o","n","i","c","s"," ","p","r","o","g","r","a","m","m","a","b","l","e",
      " ","s",".","l",".">> }

\* marketingKeywords of _isValidInvoice
marketingKeywords ==
  { <<"m","a","r","k","e","t","i","n","g">>,
    <<"p","u","b","l","i","c","i","d","a","d">>,
    <<"p","r","o","m","o","c","i","ó","n">>,
    <<"d","e","s","c","u","e","n","t","o">>,
    <<"o","f","e","r","t","a"," ","e","s","p","e","c","i","a","l">>,
    <<"n","e","w","s","l","e","t","t","e","r">>,
    <<"t","i","c","k","e","t","s"," ","t","o">>,
    <<"w","i","n"," ","t","i","c","k","e","t","s">> }

\* the provider or concept text names an issuing entity
MentionsEmisora(lowered) ==
  \E empresa \in EMPRESAS_EMISORAS : includes(lowered, empresa)

(***************************************************************************)
(* VertexAI._isValidInvoice                                                *)
(***************************************************************************)
hasInvoiceNumber(d) == d.numeroFactura # <<>> /\ trim(d.numeroFactura) # <<>>

AmountPresent(x) == x.t # "null" /\ ~(x.t = "num" /\ x.v = 0)

hasAnyAmount(d) ==
  \/ AmountPresent(d.importeSinIVA)
  \/ AmountPresent(d.iva)
  \/ AmountPresent(d.importeTotal)

\* the validator without the two issuing-entity rules
_isValidInvoiceNoAlias(d) ==
  LET proveedor == toLowerCase(d.proveedor)
      concepto  == toLowerCase(d.concepto)
  IN  IF d.esFactura = FALSE THEN FALSE
      ELSE IF d.proveedor = <<>> /\ d.numeroFactura = <<>> THEN FALSE
      ELSE IF ~hasInvoiceNumber(d) /\ ~hasAnyAmount(d) THEN FALSE
      ELSE IF /\ \E keyword \in marketingKeywords :
                    includes(concepto, keyword) \/ includes(proveedor, keyword)
              /\ d.numeroFactura = <<>>
              /\ (d.importeTotal.t = "null"
                  \/ (d.importeTotal.t = "num" /\ d.importeTotal.v = 0))
           THEN FALSE
      ELSE TRUE

\* the validator without the rule `neither provider nor invoice number`
_isValidInvoiceNoIdentityRule(d) ==
  LET proveedor == toLowerCase(d.proveedor)
      concepto  == toLowerCase(d.concepto)
  IN  IF d.esFactura = FALSE THEN FALSE
      ELSE IF MentionsEmisora(proveedor) THEN FALSE
      ELSE IF MentionsEmisora(concepto) THEN FALSE
      ELSE IF ~hasInvoiceNumber(d) /\ ~hasAnyAmount(d) THEN FALSE
      ELSE IF /\ \E keyword \in marketingKeywords :
                    includes(concepto, keyword) \/ includes(proveedor, keyword)
              /\ d.numeroFactura = <<>>
              /\ (d.importeTotal.t = "null"
                  \/ (d.importeTotal.t = "num" /\ d.importeTotal.v = 0))
           THEN FALSE
      ELSE TRUE

_isValidInvoice(d) ==
  LET proveedor == toLowerCase(d.proveedor)
      concepto  == toLowerCase(d.concepto)
  IN  IF d.esFactura = FALSE THEN FALSE
      ELSE IF MentionsEmisora(proveedor) THEN FALSE
      ELSE IF MentionsEmisora(concepto) THEN FALSE
      ELSE IF d.proveedor = <<>> /\ d.numeroFactura = <<>> THEN FALSE
      ELSE IF ~hasInvoiceNumber(d) /\ ~hasAnyAmount(d) THEN FALSE
      ELSE IF /\ \E keyword \in marketingKeywords :
                    includes(concepto, keyword) \/ includes(proveedor, keyword)
              /\ d.numeroFactura = <<>>
              /\ (d.importeTotal.t = "null"
                  \/ (d.importeTotal.t = "num" /\ d.importeTotal.v = 0))
           THEN FALSE
      ELSE TRUE

\* the return statement of _isValidInvoice that rejects d, numbered as the
\* rule it implements: 1 esFactura === false, 2 an issuing entity in the
\* provider or in the concept, 3 neither provider nor invoice number,
\* 4 neither invoice number nor amount, 5 marketing; 0 when d is accepted
rejectedBy(d) ==
  IF d.esFactura = FALSE THEN 1
  ELSE IF MentionsEmisora(toLowerCase(d.proveedor)) THEN 2
  ELSE IF MentionsEmisora(toLowerCase(d.concepto)) THEN 2
  ELSE IF d.proveedor = <<>> /\ d.numeroFactura = <<>> THEN 3
  ELSE IF ~hasInvoiceNumber(d) /\ ~hasAnyAmount(d) THEN 4
  ELSE IF /\ \E keyword \in marketingKeywords :
                \/ includes(toLowerCase(d.concepto), keyword)
                \/ includes(toLowerCase(d.proveedor), keyword)
          /\ d.numeroFactura = <<>>
          /\ (d.importeTotal.t = "null"
              \/ (d.importeTotal.t = "num" /\ d.importeTotal.v = 0))
       THEN 5
  ELSE 0

(***************************************************************************)
(* SheetsManager: the ledger.  A row is the eight columns A..H that         *)
(* registerInvoice writes (the date column is not modelled), plus `msg`,   *)
(* the identity of the message the row was appended for (a history field   *)
(* that no operation reads).                                               *)
(***************************************************************************)
\* the number of most recent rows invoiceExists looks at
rowsToCheck == 200

HeaderRow ==
  [ proveedor     |-> <<"P","r","o","v","e","e","d","o","r">>,
    numeroFactura |-> <<"N","º"," ","F","a","c","t","u","r","a">>,
    concepto      |-> <<"C","o","n","c","e","p","t","o">>,
    importeSinIVA |-> Str(<<"I","m","p","o","r","t","e"," ","s","i","n"," ","I","V","A">>),
    iva           |-> Str(<<"I","V","A">>),
    importeTotal  |-> Str(<<"I","m","p","o","r","t","e"," ","T","o","t","a","l">>),
    fileUrl       |-> <<"L","i","n","k"," ","a","l"," ","a","r","c","h","i","v","o",
                        " ","e","n"," ","D","r","i","v","e">>,
    msg           |-> "header" ]

\* _getSheet with _initializeHeaders: an empty sheet gets the header row
_getSheet(sh) == IF Len(sh) = 0 THEN <<HeaderRow>> ELSE sh

\* `x || 0` of registerInvoice for a monetary field
OrZero(x) == IF Truthy(x) THEN x ELSE Num(0)

\* SheetsManager.registerInvoice: the sheet after the append
registerInvoice(sh, d, fileUrl, m) ==
  Append(_getSheet(sh),
         [ proveedor     |-> d.proveedor,
           numeroFactura |-> d.numeroFactura,
           concepto      |-> d.concepto,
           importeSinIVA |-> OrZero(d.importeSinIVA),
           iva           |-> OrZero(d.iva),
           importeTotal  |-> OrZero(d.importeTotal),
           fileUrl       |-> fileUrl,
           msg           |-> m ])

Min(a, b) == IF a < b THEN a ELSE b

Max(a, b) == IF a > b THEN a ELSE b

\* the window of invoiceExists ending one row too early
RecentRowsOffByOne(sh) ==
  LET lastRow  == Len(sh)
      startRow == Max(1, lastRow - rowsToCheck + 1)
      numRows  == Min(rowsToCheck, lastRow)
  IN  SubSeq(sh, startRow, startRow + numRows - 2)

\* the rows invoiceExists reads: startRow .. startRow + numRows - 1
RecentRows(sh) ==
  LET lastRow  == Len(sh)
      startRow == Max(1, lastRow - rowsToCheck + 1)
      numRows  == Min(rowsToCheck, lastRow)
  IN  SubSeq(sh, startRow, startRow + numRows - 1)

\* SheetsManager.invoiceExists on the sheet as _getSheet returns it
invoiceExists(sh0, numeroFactura, proveedor, fileUrl) ==
  IF numeroFactura = <<>> /\ proveedor = <<>> THEN FALSE
  ELSE
    LET rows == RecentRows(_getSheet(sh0))
        invoiceNumbersFlat ==
          { trim(rows[i].numeroFactura) : i \in 1..Len(rows) } \ {<<>>}
        normalizedProveedor == trim(toLowerCase(proveedor))
        normalizedNumero == IF numeroFactura # <<>> THEN trim(numeroFactura) ELSE <<>>
    IN  IF Len(rows) <= 0 THEN FALSE
        ELSE IF MentionsEmisora(normalizedProveedor) THEN TRUE
        ELSE IF normalizedNumero # <<>> /\ normalizedNumero \in invoiceNumbersFlat THEN TRUE
        ELSE IF (normalizedProveedor # <<>> /\ normalizedNumero # <<>>) \/ fileUrl # <<>>
        THEN \E i \in 1..Len(rows) :
               LET rowProveedor == trim(toLowerCase(rows[i].proveedor))
                   rowNumero    == trim(rows[i].numeroFactura)
                   rowFileUrl   == rows[i].fileUrl
               IN  \/ /\ normalizedProveedor # <<>>
                      /\ normalizedNumero # <<>>
                      /\ rowProveedor = normalizedProveedor
                      /\ rowNumero = normalizedNumero
                   \/ MentionsEmisora(normalizedProveedor)
                   \/ MentionsEmisora(rowProveedor)
                   \/ fileUrl # <<>> /\ rowFileUrl # <<>> /\ rowFileUrl = fileUrl
        ELSE FALSE

(***************************************************************************)
(* Storage: the processed-message-id list                                  *)
(***************************************************************************)
\* Capacity of the processed-id list.  The code keeps the last 5000 ids
\* (src/03_VertexAI.js:1157); the model keeps the last MaxProcessedIds so
\* that eviction happens within a few messages.
MaxProcessedIds == 2

\* Storage.isEmailProcessed
isEmailProcessed(ids, emailId) == \E i \in 1..Len(ids) : ids[i] = emailId

\* a list that drops the newest stored id, instead of the oldest, when full
markEmailProcessedDroppingNewest(ids, emailId, keep) ==
  IF isEmailProcessed(ids, emailId) THEN ids
  ELSE IF Len(ids) + 1 > keep
       THEN Append(SubSeq(ids, 1, keep - 1), emailId)
       ELSE Append(ids, emailId)

\* Storage.markEmailProcessed keeping the last `keep` ids: the list after the
\* call
markEmailProcessedKeeping(ids, emailId, keep) ==
  IF isEmailProcessed(ids, emailId) THEN ids
  ELSE LET pushed == Append(ids, emailId)
       IN  IF Len(pushed) > keep
           THEN SubSeq(pushed, Len(pushed) - keep + 1, Len(pushed))
           ELSE pushed

\* Storage.markEmailProcessed: the list after the call
markEmailProcessed(ids, emailId) ==
  markEmailProcessedKeeping(ids, emailId, MaxProcessedIds)

\* Storage.clearProcessedEmails
clearProcessedEmails == <<>>

(***************************************************************************)
(* Time budgets (CONFIG, src/unnamed/part_002)                             *)
(***************************************************************************)
MAX_EXECUTION_TIME_MS == 300000

MAX_INVOICE_PROCESSING_TIME_MS == 45000

MAX_VERTEX_AI_CALL_TIME_MS == 20000

MAX_RATE_LIMITER_WAIT_MS == 10000

MAX_RETRIES == 3

\* the headroom extractInvoiceData keeps under the per-message budget
ExtractionReserveMs == 10000

\* maxTotalTime of extractInvoiceData
maxTotalTime == MAX_INVOICE_PROCESSING_TIME_MS - ExtractionReserveMs

(***************************************************************************)
(* Errors.  The code classifies an exception by substrings of its message; *)
(* an error is modelled by which of these substrings its message has:      *)
(*   lc  - 'timeout'        uc  - 'Timeout'                                *)
(*   ttl - 'took too long'  met - 'Maximum execution time reached'         *)
(***************************************************************************)
Err(name, lc, uc, ttl, met) ==
  [name |-> name, lc |-> lc, uc |-> uc, ttl |-> ttl, met |-> met]

NoError == Err("none", FALSE, FALSE, FALSE, FALSE)

\* `Vertex AI extraction timeout after ...ms` (extractInvoiceData checkTimeout)
ExtractionTimeoutError == Err("extractionTimeout", TRUE, FALSE, FALSE, FALSE)

\* `Vertex AI call took too long: ...ms` (extractInvoiceData, line 587)
TookTooLongError == Err("tookTooLong", FALSE, FALSE, TRUE, FALSE)

\* { type: 'FAILED_TEMPORARY', message: `Socket Timeout after ...ms` } (_callAPI)
SocketTimeoutError == Err("socketTimeout", FALSE, TRUE, FALSE, FALSE)

\* { type: 'RETRIABLE_ERROR', code: 429|500|503, message: `Vertex AI API error: ...` }
RetriableHttpError == Err("retriableHttp", FALSE, FALSE, FALSE, FALSE)

\* `Vertex AI API error: 4xx`, a failed fetch, an unparsable answer
FatalApiError == Err("fatalApi", FALSE, FALSE, FALSE, FALSE)

\* `Invoice processing timeout after ...ms` (processMessage checkTimeout)
MessageTimeoutError == Err("messageTimeout", TRUE, FALSE, FALSE, FALSE)

\* an exception of Drive, Sheets or Gmail
ServiceError == Err("service", FALSE, FALSE, FALSE, FALSE)

\* an exception of Gmail whose message reads `... Timeout ...`
ServiceTimeoutError == Err("serviceTimeout", FALSE, TRUE, FALSE, FALSE)

\* processMessage, catch: error.message.includes('timeout')
IsTimeoutForMessage(e) == e.lc

\* the inner catch recognising only the lower-case 'timeout'
IsTimeoutForThreadMessageLowercase(e) == e.lc

\* processThread, inner catch (lines 934-938)
IsTimeoutForThreadMessage(e) == e.lc \/ e.uc \/ e.ttl

\* processThread, outer catch (lines 960-965)
IsTimeoutForThread(e) == e.lc \/ e.uc \/ e.ttl \/ e.met

\* processInvoiceEmails, catch (lines 735-739)
IsTimeoutForRun(e) == e.lc \/ e.uc \/ e.ttl

\* the failures extractInvoiceData can raise to processMessage
ExtractionFailures ==
  { ExtractionTimeoutError, TookTooLongError, SocketTimeoutError,
    RetriableHttpError, FatalApiError }

(***************************************************************************)
(* The mailbox: three threads, four messages.                              *)
(***************************************************************************)
MessageIds == {"m1", "m2", "m3", "m4"}

Threads == <<"t1", "t2", "t3">>

\* the messages of a thread, oldest first (thread.getMessages())
ThreadMessages(t) ==
  IF t = "t1" THEN <<"m1", "m2">> ELSE IF t = "t2" THEN <<"m3">>
  ELSE IF t = "t3" THEN <<"m4">> ELSE IF t = "t4" THEN <<"m5">>
  ELSE IF t = "t5" THEN <<"m6">> ELSE <<"m7">>

\* calendar month (yyyyMM) of the latest message of a thread; the threads
\* t4, t5 and t6 are not in the mailbox and only occur in search results
\* examined on their own
ThreadMonth(t) ==
  IF t \in {"t3", "t4"} THEN 202511 ELSE IF t = "t5" THEN 202512 ELSE 202510

Attachment(name, contentType, potentialInvoiceNum) ==
  [name |-> name, contentType |-> contentType,
   potentialInvoiceNum |-> potentialInvoiceNum]

\* the attachments of a message (message.getAttachments()).
\* potentialInvoiceNum is what lines 1057-1059 of processMessage derive from
\* the file name: the regular-expression match with separators and leading
\* letters removed, or the empty string when nothing matches.
Attachments(m) ==
  IF m = "m1"
  THEN << Attachment(<<"l","o","g","o",".","p","n","g">>, "image/png", <<>>),
          Attachment(<<"F","a","c","t","u","r","a","-","1","0","9","8","3",".","P","D","F">>,
                     "application/octet-stream", <<"1","0","9","8","3">>) >>
  ELSE IF m = "m3"
  THEN << Attachment(<<"s","c","a","n",".","p","d","f">>, "application/pdf", <<>>) >>
  ELSE IF m = "m4"
  THEN << Attachment(<<"l","o","g","o",".","p","n","g">>, "image/png", <<>>) >>
  ELSE IF m = "m5"
  THEN << Attachment(<<"I","p","r","o","n","i","c","s","-","2","0","2","5",".","p","d","f">>, "application/pdf", <<"2","0","2","5">>) >>
  ELSE << >>

\* msgData.subject; the texts of the messages are in ASCII and of one line
Subject(m) ==
  IF m = "m7" THEN <<"Y","o","u","r"," ","O","r","d","e","r"," ","N","u","m","b","e","r"," ","5">>
  ELSE IF m = "m8" THEN <<"I","n","f","o">>
  ELSE <<"F","a","c","t","u","r","a"," ","7","9">>

\* msgData.body, '' when the message has no plain-text body
Body(m) ==
  IF m = "m8" THEN <<"P","e","d","i","d","o"," ","7"," ","p","e","n","d","i","e","n","t","e"," ","d","e"," ","s","e","r"," ","e","n","v","i","a","d","o">> ELSE <<>>

\* the length of bodyPreview
PreviewLen == 500

\* the nonInvoicePatterns that can match a text in ASCII, each as the
\* literals its `.*` separate; the other five hold a letter outside ASCII
nonInvoicePatterns ==
  { << <<"e","n","t","r","e","g","a","d","o">>, <<"p","r","o","d","u","c","t","o","s">> >>,
    << <<"p","e","d","i","d","o">>, <<"e","n","v","i","a","d","o">> >>,
    << <<"y","o","u","r">>, <<"o","r","d","e","r">>, <<"s","h","i","p","p","e","d">> >>,
    << <<"t","r","a","c","k","i","n","g">>, <<"n","u","m","b","e","r">> >>,
    << <<"t","u"," ","p","e","d","i","d","o">>, <<"s","e"," ","h","a">> >>,
    << <<"o","r","d","e","r">>, <<"n","u","m","b","e","r">> >> }

\* pattern.test(text) for a pattern of literals separated by `.*`, on a
\* text in lower case without a line break
RECURSIVE test(_, _)
test(pattern, text) ==
  IF pattern = <<>> THEN TRUE
  ELSE \E i \in 0..(Len(text) - Len(Head(pattern))) :
         /\ SubSeq(text, i + 1, i + Len(Head(pattern))) = Head(pattern)
         /\ test(Tail(pattern), SubSeq(text, i + Len(Head(pattern)) + 1, Len(text)))

\* no pattern is tried
MatchesNoPattern(m) == FALSE

\* some nonInvoicePatterns expression matches the subject or the body preview
MatchesNonInvoicePattern(m) ==
  LET \* body || htmlBody || subject; the messages have no HTML body
      emailContent == IF Body(m) # <<>> THEN Body(m) ELSE Subject(m)
      subjectLower == toLowerCase(Subject(m))
      bodyPreview  == toLowerCase(SubSeq(emailContent, 1, Min(PreviewLen, Len(emailContent))))
  IN  \E pattern \in nonInvoicePatterns :
        test(pattern, subjectLower) \/ test(pattern, bodyPreview)

endsWith(s, suffix) ==
  Len(s) >= Len(suffix) /\ SubSeq(s, Len(s) - Len(suffix) + 1, Len(s)) = suffix

\* the filter of processMessage, lines 1021-1025
IsPdfAttachment(att) ==
  \/ att.contentType = "application/pdf"
  \/ endsWith(toLowerCase(att.name), <<".","p","d","f">>)

\* no attachment is used
NoAttachment == Attachment(<<>>, "none", <<>>)

\* a selection that takes the first attachment of a message that has a PDF
assembleContentFirstOfAny(atts) ==
  IF Len(atts) > 0
  THEN IF Len(SelectSeq(atts, IsPdfAttachment)) = 0
       THEN [source |-> "none", attachment |-> NoAttachment]
       ELSE [source |-> "pdf", attachment |-> atts[1]]
  ELSE [source |-> "body", attachment |-> NoAttachment]

\* the content processMessage works on (lines 1019-1042 and 1200-1203): the
\* first PDF attachment, the email body when the message has no attachment,
\* and nothing when it has attachments none of which is a PDF
assembleContent(atts) ==
  LET pdfAttachments == SelectSeq(atts, IsPdfAttachment)
  IN  IF Len(atts) > 0
      THEN IF Len(pdfAttachments) = 0
           THEN [source |-> "none", attachment |-> NoAttachment]
           ELSE [source |-> "pdf", attachment |-> pdfAttachments[1]]
      ELSE [source |-> "body", attachment |-> NoAttachment]

(***************************************************************************)
(* Answers of the AI model: the parsed JSON object of _parseResponse.      *)
(***************************************************************************)
Answer(esFactura, proveedor, numeroFactura, concepto, sinIVA, iva, total) ==
  [esFactura |-> esFactura, proveedor |-> proveedor,
   numeroFactura |-> numeroFactura, concepto |-> concepto,
   importeSinIVA |-> sinIVA, iva |-> iva, importeTotal |-> total]

\* {"esFactura": false}
NotInvoiceAnswer == Answer(FALSE, <<>>, <<>>, <<>>, Null, Null, Null)

\* scenario A: "Carles", "10983", "778", "163,38", "824,68"
CarlesAnswer ==
  Answer(TRUE, <<"C","a","r","l","e","s">>, <<"1","0","9","8","3">>, <<>>,
         Str(<<"7","7","8">>), Str(<<"1","6","3",",","3","8">>),
         Str(<<"8","2","4",",","6","8">>))

\* a self-issued invoice: provider "IPRONICS SL"
SelfIssuedAnswer ==
  Answer(TRUE, <<"I","P","R","O","N","I","C","S"," ","S","L">>, <<"7","7">>, <<>>,
         Num(100000), Num(21000), Num(121000))

\* the issuing entity named in the concept only
SelfInConceptAnswer ==
  Answer(TRUE, <<"A","c","m","e">>, <<"7","8">>,
         <<"u","s","o"," ","I","n","t","e","l","e","c","t","i","u","m">>,
         Num(100000), Num(21000), Num(121000))

\* a receipt without invoice number
ReceiptAnswer ==
  Answer(TRUE, <<"A","W","S">>, <<>>, <<>>, Null, Null, Num(12500))

\* an invoice number but no provider
NoProviderAnswer ==
  Answer(TRUE, <<>>, <<"1","0","9","8","4">>, <<>>, Null, Null, Num(50000))

\* neither invoice number nor total, only the amount before VAT
NetOnlyAnswer ==
  Answer(TRUE, <<"A","c","m","e">>, <<>>, <<>>, Num(100000), Null, Null)

\* a newsletter: no number, no amount
NewsletterAnswer ==
  Answer(TRUE, <<"A","c","m","e">>, <<>>,
         <<"N","e","w","s","l","e","t","t","e","r">>, Null, Null, Str(<<"0",",","0","0">>))

\* a plain invoice of another provider
AcmeAnswer ==
  Answer(TRUE, <<"A","c","m","e">>, <<"A","-","7","9">>, <<>>,
         Num(100000), Num(21000), Num(121000))

\* an invoice whose number is printed with a series prefix: "F-10983"
PrefixedAnswer ==
  Answer(TRUE, <<"A","c","m","e">>, <<"F","-","1","0","9","8","3">>, <<>>,
         Num(100000), Num(21000), Num(121000))

\* A mailbox: the answer the AI gives for the content of each message.  m4
\* carries no PDF and is never submitted to the AI.
Mailbox(a1, a2, a3) ==
  [m \in MessageIds |->
     IF m = "m1" THEN a1 ELSE IF m = "m2" THEN a2 ELSE IF m = "m3" THEN a3
     ELSE NotInvoiceAnswer]

\* The mailboxes explored
Mailboxes ==
  { Mailbox(ReceiptAnswer, AcmeAnswer, NoProviderAnswer),
    Mailbox(CarlesAnswer, NetOnlyAnswer, NotInvoiceAnswer),
    Mailbox(AcmeAnswer, SelfIssuedAnswer, SelfInConceptAnswer),
    Mailbox(SelfInConceptAnswer, NewsletterAnswer, NotInvoiceAnswer),
    Mailbox(AcmeAnswer, AcmeAnswer, AcmeAnswer),
    Mailbox(NotInvoiceAnswer, NotInvoiceAnswer, NetOnlyAnswer),
    Mailbox(PrefixedAnswer, CarlesAnswer, NotInvoiceAnswer) }

(***************************************************************************)
(* Drive: files are numbered as they are created; the URL of file n is     *)
(* the string "u" followed by the digit n.                                 *)
(***************************************************************************)
\* DriveManager.getFileUrl; '' when there is no file
getFileUrl(file) == IF file = 0 THEN <<>> ELSE <<"u", DigitChars[file + 1]>>

\* the characters _sanitizeFilename replaces: < > : " / \ | ? *
ReservedChars == {"<", ">", ":", "\"", "/", "\\", "|", "?", "*"}

\* the length _sanitizeFilename cuts a text to
MaxSanitizedLen == 50

\* text.replace(/\s+/g, '_'): every run of white space becomes one underscore
RECURSIVE replaceSpaceRuns(_)
replaceSpaceRuns(s) ==
  IF s = <<>> THEN <<>>
  ELSE IF IsSpace(Head(s))
  THEN <<"_">> \o replaceSpaceRuns(trimStart(s))
  ELSE <<Head(s)>> \o replaceSpaceRuns(Tail(s))

\* DriveManager._sanitizeFilename
_sanitizeFilename(text) ==
  IF text = <<>> THEN <<"U","n","k","n","o","w","n">>
  ELSE LET replaced == [i \in 1..Len(text) |->
                          IF text[i] \in ReservedChars THEN "_" ELSE text[i]]
           joined == replaceSpaceRuns(replaced)
       IN  trim(SubSeq(joined, 1, Min(Len(joined), MaxSanitizedLen)))

\* a file name made of the provider only
_generateInvoiceFilenameOfProvider(d) ==
  _sanitizeFilename(d.proveedor) \o <<"_","U","n","k","n","o","w","n",".","p","d","f">>

\* DriveManager._generateInvoiceFilename for a record without fechaFactura:
\* `${proveedor}_${numeroFactura}_Unknown.pdf`
_generateInvoiceFilename(d) ==
  _sanitizeFilename(IF d.proveedor = <<>> THEN <<"U","n","k","n","o","w","n">>
                    ELSE d.proveedor)
    \o <<"_">>
    \o _sanitizeFilename(IF d.numeroFactura = <<>> THEN <<"N","/","A">>
                         ELSE d.numeroFactura)
    \o <<"_","U","n","k","n","o","w","n",".","p","d","f">>

\* DriveManager.renameInvoiceFile: the name of the file after the call; a
\* failure of setName is logged and ignored
renameInvoiceFile(name, d, setNameFails) ==
  IF setNameFails THEN name ELSE _generateInvoiceFilename(d)

(***************************************************************************)
(* processMessage(requestId, msgData), as one step.                        *)
(*                                                                         *)
(* Inputs chosen by the environment:                                       *)
(*   ans   - the answer the AI gives for this message's content            *)
(*   ext   - NoError, or the failure extractInvoiceData raises             *)
(*   dPre  - time spent before extraction (Drive, PDF text)                *)
(*   dExt  - time spent inside extractInvoiceData                          *)
(*   fault - "none", or the collaborator call that throws:                 *)
(*           "saveAttachment" or "registerInvoice"                         *)
(* State read: the sheet sh, the processed ids, the live files fs, the     *)
(* number nf of files created so far.                                      *)
(*                                                                         *)
(* The result carries the state after the call and                         *)
(*   kind - "created" (invoiceData returned), "null" (null returned),      *)
(*          "throw" (exception err raised to processThread)                *)
(*   why  - the return statement taken                                     *)
(*   file - the file saved or generated during the call (0: none)          *)
(*   answered - extractInvoiceData was called and did not throw            *)
(***************************************************************************)
Outcome(kind, why, err, data, sh, ids, fs, nf, file, dur, answered) ==
  [kind |-> kind, why |-> why, err |-> err, data |-> data, sheet |-> sh,
   processed |-> ids, files |-> fs, nextFile |-> nf, file |-> file,
   dur |-> dur, answered |-> answered]

\* the catch block of processMessage (lines 1356-1375)
Caught(e, data, sh, ids, fs, nf, file, dur, answered) ==
  IF IsTimeoutForMessage(e)
  THEN Outcome("null", "timeout", e, data, sh, ids, fs, nf, file, dur, answered)
  ELSE Outcome("throw", "error", e, data, sh, ids, fs, nf, file, dur, answered)

\* checkTimeout of processMessage
MessageTimedOut(elapsed) == elapsed > MAX_INVOICE_PROCESSING_TIME_MS

\* the guard of the email-body path reduced to `invoiceData && esFactura !== false`
BodyInvoiceAcceptedLax(d) == d.esFactura # FALSE

\* the guard of the email-body path (lines 1251-1255)
BodyInvoiceAccepted(d) ==
  /\ d.esFactura # FALSE
  /\ d.proveedor # <<>>
  /\ trim(d.proveedor) # <<>>
  /\ (d.numeroFactura # <<>> \/ Truthy(d.importeTotal))

\* lines 1312-1354 with the id marked before the row is appended
PersistMarkFirst(m, d, file, sh, ids, fs, nf, dur, fault) ==
  LET fileUrl == getFileUrl(file)
      shUsed  == IF d.numeroFactura = <<>> /\ d.proveedor = <<>> THEN sh ELSE _getSheet(sh)
  IN  IF invoiceExists(sh, d.numeroFactura, d.proveedor, fileUrl)
      THEN Outcome("null", "duplicate", NoError, d, shUsed, ids, fs \ {file}, nf, file, dur, TRUE)
      ELSE IF fault = "registerInvoice"
      THEN Caught(ServiceError, d, _getSheet(sh), markEmailProcessed(ids, m), fs, nf,
                  file, dur, TRUE)
      ELSE Outcome("created", "created", NoError, d,
                   registerInvoice(sh, d, fileUrl, m),
                   markEmailProcessed(ids, m), fs, nf, file, dur, TRUE)

\* lines 1312-1354: duplicate check, rename, register, mark
Persist(m, d, file, sh, ids, fs, nf, dur, fault) ==
  LET fileUrl == getFileUrl(file)
      shUsed  == IF d.numeroFactura = <<>> /\ d.proveedor = <<>> THEN sh ELSE _getSheet(sh)
  IN  IF invoiceExists(sh, d.numeroFactura, d.proveedor, fileUrl)
      THEN Outcome("null", "duplicate", NoError, d, shUsed, ids, fs \ {file}, nf, file, dur, TRUE)
      ELSE IF fault = "registerInvoice"
      THEN Caught(ServiceError, d, _getSheet(sh), ids, fs, nf, file, dur, TRUE)
      ELSE Outcome("created", "created", NoError, d,
                   registerInvoice(sh, d, fileUrl, m),
                   markEmailProcessed(ids, m), fs, nf, file, dur, TRUE)

\* lines 1095-1172 (PDF) and 1242-1244 (body): the extraction between two
\* checkTimeout calls.  Returns an Outcome when the call ends here, and
\* otherwise the record [kind |-> "data", data |-> invoiceData or NoData].
NoData == [esFactura |-> FALSE, proveedor |-> <<>>, numeroFactura |-> <<>>,
           concepto |-> <<>>, importeSinIVA |-> Null, iva |-> Null,
           importeTotal |-> Null]

\* the value extractInvoiceData returns for a parsed answer: the normalised
\* record, or null when _isValidInvoice rejects it (lines 598-639)
Extracted(ans) ==
  IF _isValidInvoice(Normalize(ans)) THEN [isNull |-> FALSE, data |-> Normalize(ans)]
  ELSE [isNull |-> TRUE, data |-> NoData]

processMessage(m, ans, ext, dPre, dExt, fault, sh, ids, fs, nf) ==
  LET content == assembleContent(Attachments(m))
  IN
  IF content.source # "body"
  THEN \* ---- the attachment path ----
    IF content.source = "none"
    THEN Outcome("null", "noPdf", NoError, NoData, sh, ids, fs, nf, 0, 0, FALSE)
    ELSE
    LET attachment == content.attachment
        num == attachment.potentialInvoiceNum
    IN
    IF MentionsEmisora(toLowerCase(attachment.name))
    THEN Outcome("null", "aliasInFilename", NoError, NoData, sh, ids, fs, nf, 0, 0, FALSE)
    ELSE IF num # <<>> /\ Len(num) >= 3 /\ invoiceExists(sh, num, <<>>, <<>>)
    THEN Outcome("null", "filenameDuplicate", NoError, NoData, _getSheet(sh), ids, fs, nf, 0, 0, FALSE)
    ELSE
    LET sh1 == IF num # <<>> /\ Len(num) >= 3 THEN _getSheet(sh) ELSE sh
    IN
    IF fault = "saveAttachment"
    THEN Caught(ServiceError, NoData, sh1, ids, fs, nf, 0, dPre, FALSE)
    ELSE
    LET file == nf + 1
        fs1  == fs \cup {file}
    IN
    IF MessageTimedOut(dPre)
    THEN Caught(MessageTimeoutError, NoData, sh1, ids, fs1, file, file, dPre, FALSE)
    ELSE IF ext # NoError
    THEN Caught(ext, NoData, sh1, ids, fs1, file, file, dPre + dExt, FALSE)
    ELSE IF MessageTimedOut(dPre + dExt)
    THEN Caught(MessageTimeoutError, NoData, sh1, ids, fs1, file, file, dPre + dExt, TRUE)
    ELSE
    LET x == Extracted(ans)
    IN
    IF x.isNull
    THEN Outcome("null", "rejected", NoError, NoData, sh1, ids, fs1 \ {file}, file, file,
                 dPre + dExt, TRUE)
    ELSE Persist(m, x.data, file, sh1, ids, fs1, file, dPre + dExt, fault)
  ELSE \* ---- the email-body path ----
    IF MatchesNonInvoicePattern(m)
    THEN Outcome("null", "nonInvoicePattern", NoError, NoData, sh, ids, fs, nf, 0, 0, FALSE)
    ELSE IF MessageTimedOut(dPre)
    THEN Caught(MessageTimeoutError, NoData, sh, ids, fs, nf, 0, dPre, FALSE)
    ELSE IF ext # NoError
    THEN Caught(ext, NoData, sh, ids, fs, nf, 0, dPre + dExt, FALSE)
    ELSE IF MessageTimedOut(dPre + dExt)
    THEN Caught(MessageTimeoutError, NoData, sh, ids, fs, nf, 0, dPre + dExt, TRUE)
    ELSE
    LET x == Extracted(ans)
    IN
    IF x.isNull \/ ~BodyInvoiceAccepted(x.data)
    THEN Outcome("null", "bodyNotInvoice", NoError, NoData, sh, ids, fs, nf, 0,
                 dPre + dExt, TRUE)
    ELSE
    LET file == nf + 1
    IN  Persist(m, x.data, file, sh, ids, fs \cup {file}, file, dPre + dExt, fault)

(***************************************************************************)
(* VertexAI._rateLimiter.  The methods read Date.now() and the array        *)
(* _calls; they are given both and return what they leave.                 *)
(***************************************************************************)
\* CONFIG.RATE_LIMIT_CALLS_PER_MINUTE is 60; the model uses a small value so
\* that the retries of one extraction fill the window.
RATE_LIMIT_CALLS_PER_MINUTE == 2

\* the window of canCall
WindowMs == 60000

\* the margin waitIfNeeded adds to the age of the oldest call
WaitBufferMs == 1000

\* the longest single sleep of waitIfNeeded
MaxSleepMs == 30000

\* the filter keeping also a timestamp that is exactly 60 s old
PrunedKeepingOldest(calls, now) ==
  SelectSeq(calls, LAMBDA timestamp : timestamp >= now - WindowMs)

\* this._calls.filter(timestamp => timestamp > oneMinuteAgo)
Pruned(calls, now) == SelectSeq(calls, LAMBDA timestamp : timestamp > now - WindowMs)

\* canCall of a limiter whose _maxCalls is maxCalls: the array it leaves and
\* the value it returns
canCallWith(calls, now, maxCalls) ==
  [calls |-> Pruned(calls, now),
   ok    |-> Len(Pruned(calls, now)) < maxCalls]

\* canCall: the array it leaves and the value it returns
canCall(calls, now) == canCallWith(calls, now, RATE_LIMIT_CALLS_PER_MINUTE)

\* the timestamp pushed twice
recordCallTwice(calls, now) == Append(Append(calls, now), now)

\* recordCall
recordCall(calls, now) == Append(calls, now)

\* Math.min(...this._calls) of a non-empty array
oldestCall(calls) ==
  CHOOSE t \in { calls[i] : i \in 1..Len(calls) } :
    \A i \in 1..Len(calls) : t <= calls[i]

\* the sleep not capped by what is left of the wait budget
actualWaitTimeUncapped(waitTime, remainingWaitTime) == Min(waitTime, MaxSleepMs)

\* Math.min(waitTime, remainingWaitTime, 30000)
actualWaitTime(waitTime, remainingWaitTime) ==
  Min(Min(waitTime, remainingWaitTime), MaxSleepMs)

\* the loop of waitIfNeeded, entered at time `now` having started at
\* waitStartTime; sleeps lists the calls of Utilities.sleep made so far, each
\* with the age of the oldest call and the time waited when it was computed
RECURSIVE waitLoop(_, _, _, _, _)
waitLoop(calls, now, waitStartTime, maxCalls, sleeps) ==
  LET c == canCallWith(calls, now, maxCalls)
      waitElapsed == now - waitStartTime
      done == [calls |-> c.calls, now |-> now, sleeps |-> sleeps]
  IN  IF c.ok THEN done
      ELSE IF waitElapsed > MAX_RATE_LIMITER_WAIT_MS THEN done
      ELSE IF Len(c.calls) = 0 THEN done
      ELSE
      LET ageOfOldestCall == now - oldestCall(c.calls)
          waitTime == Max(0, WindowMs - ageOfOldestCall + WaitBufferMs)
          remainingWaitTime == MAX_RATE_LIMITER_WAIT_MS - waitElapsed
          sleep == actualWaitTime(waitTime, remainingWaitTime)
      IN  IF sleep > 0 /\ sleep <= MaxSleepMs
          THEN waitLoop(canCallWith(c.calls, now + sleep, maxCalls).calls,
                        now + sleep, waitStartTime, maxCalls,
                        Append(sleeps, [ms |-> sleep, ageOfOldestCall |-> ageOfOldestCall,
                                        waitElapsed |-> waitElapsed]))
          ELSE done

\* waitIfNeeded of a limiter whose _maxCalls is maxCalls: the array and the
\* clock when it returns, and the sleeps it made
waitIfNeededWith(calls, now, maxCalls) == waitLoop(calls, now, now, maxCalls, <<>>)

\* waitIfNeeded: the array and the clock when it returns
waitIfNeeded(calls, now) == waitIfNeededWith(calls, now, RATE_LIMIT_CALLS_PER_MINUTE)

(***************************************************************************)
(* VertexAI.extractInvoiceData: one iteration of the retry loop.           *)
(*                                                                         *)
(* Inputs chosen by the environment:                                       *)
(*   prep   - the time between recordCall and _callAPI (the prompt is      *)
(*            built, the bytes of the PDF are read)                        *)
(*   d      - the time _callAPI takes                                      *)
(*   out    - what _callAPI does: "ok", "socketTimeout", "http429",        *)
(*            "error"                                                      *)
(*   jitter - Math.random() * 1000, rounded                                *)
(*   ans    - the parsed answer when the call succeeds                     *)
(* The result says how the iteration ends (next: "attempt", "return",      *)
(* "throw"), the clock and the array then, whether _callAPI was called,    *)
(* the error raised inside the try block (raised) and, when the function   *)
(* throws, the error it throws (err).                                      *)
(***************************************************************************)
\* only error.type === 'RETRIABLE_ERROR'
isRetriableErrorHttpOnly(e) == e.name = "retriableHttp"

\* error.type === 'RETRIABLE_ERROR' || error.type === 'FAILED_TEMPORARY'
isRetriableError(e) == e.name \in {"retriableHttp", "socketTimeout"}

\* error.code is 429, 500 or 503
isRetriableHttpCode(e) == e.name = "retriableHttp"

\* checkTimeout of extractInvoiceData
ExtractionTimedOut(now, startTime) == now - startTime > maxTotalTime

\* 2 to the power n
RECURSIVE Pow2(_)
Pow2(n) == IF n = 0 THEN 1 ELSE 2 * Pow2(n - 1)

\* the longest backoff
MaxBackoffMs == 10000

\* Math.min(baseBackoff + jitter, 10000)
backoffTime(attempt, jitter) == Min(Pow2(attempt) * 1000 + jitter, MaxBackoffMs)

\* what extractInvoiceData has to return when it does not return an answer
NoExtract == [isNull |-> TRUE, data |-> NoData]

Step(next, now, calls, called, raised, err, data) ==
  [next |-> next, now |-> now, calls |-> calls, called |-> called,
   raised |-> raised, err |-> err, data |-> data]

\* the catch block (lines 641-703), entered at time `now` with error e
catchBlock(e, attempt, maxRetries, startTime, now, calls, called, jitter) ==
  IF e.lc /\ ~isRetriableError(e)
  THEN Step("throw", now, calls, called, e, e, NoExtract)
  ELSE IF ~isRetriableError(e) /\ ~isRetriableHttpCode(e) /\ attempt < maxRetries
  THEN Step("attempt", now, calls, called, e, NoError, NoExtract)
  ELSE IF attempt >= maxRetries
  THEN Step("throw", now, calls, called, e, e, NoExtract)
  ELSE IF ExtractionTimedOut(now, startTime)
  THEN Step("throw", now, calls, called, e, ExtractionTimeoutError, NoExtract)
  ELSE IF ExtractionTimedOut(now + backoffTime(attempt, jitter), startTime)
  THEN Step("throw", now + backoffTime(attempt, jitter), calls, called, e,
            ExtractionTimeoutError, NoExtract)
  ELSE Step("attempt", now + backoffTime(attempt, jitter), calls, called, e,
            NoError, NoExtract)

\* the try block (lines 535-639) followed by the catch block
retryIteration(attempt, maxRetries, startTime, now, calls, prep, d, out, jitter, ans) ==
  IF ExtractionTimedOut(now, startTime)
  THEN catchBlock(ExtractionTimeoutError, attempt, maxRetries, startTime, now,
                  calls, FALSE, jitter)
  ELSE
  LET calls1 == recordCall(calls, now)
      before == now + prep
      after  == before + d
      e == IF out = "socketTimeout" THEN SocketTimeoutError
           ELSE IF out = "http429" THEN RetriableHttpError
           ELSE IF out = "error" THEN FatalApiError
           ELSE IF d > MAX_VERTEX_AI_CALL_TIME_MS THEN TookTooLongError
           ELSE IF ExtractionTimedOut(after, startTime) THEN ExtractionTimeoutError
           ELSE NoError
  IN  IF ExtractionTimedOut(before, startTime)
      THEN catchBlock(ExtractionTimeoutError, attempt, maxRetries, startTime, before,
                      calls1, FALSE, jitter)
      ELSE IF e = NoError
      THEN Step("return", after, calls1, TRUE, NoError, NoError, Extracted(ans))
      ELSE catchBlock(e, attempt, maxRetries, startTime, after, calls1, TRUE, jitter)

(***************************************************************************)
(* Run scheduling (processInvoiceEmails, lines 594-638)                    *)
(***************************************************************************)
\* CONFIG.BATCH_SIZE is 10 and CONFIG.MAX_THREADS_PER_RUN is 50; the model
\* uses small values so that a mailbox of three threads spans two batches.
BATCH_SIZE == 2

MAX_THREADS_PER_RUN == 3

MAX_CONSECUTIVE_TIMEOUTS == 2

\* number of runs of the entry point that are explored
MaxRuns == 2

\* number of steps of one behaviour in which a collaborator (the AI endpoint,
\* Drive, Sheets, Gmail) fails or is slow
MaxDisturbed == 2

\* Math.ceil(a / b) for a >= 0, b > 0
Ceil(a, b) == (a + b - 1) \div b

\* months of the threads, ascending (Object.keys(threadsByMonth).sort())
RECURSIVE SortedMonths(_)
SortedMonths(S) ==
  IF S = {} THEN <<>>
  ELSE LET lo == CHOOSE x \in S : \A y \in S : x <= y
       IN  <<lo>> \o SortedMonths(S \ {lo})

\* monthThreads.slice(from, to) for every month in order, concatenated
RECURSIVE SliceByMonth(_, _, _, _)
SliceByMonth(threads, months, from, to) ==
  IF months = <<>> THEN <<>>
  ELSE LET monthThreads == SelectSeq(threads, LAMBDA t : ThreadMonth(t) = Head(months))
       IN  SubSeq(monthThreads, from + 1, Min(to, Len(monthThreads)))
             \o SliceByMonth(threads, Tail(months), from, to)

\* the first maxThreadsPerRun threads in search order, months ignored
BalanceThreadsFirstN(threads, maxThreadsPerRun) ==
  SubSeq(threads, 1, Min(Len(threads), maxThreadsPerRun))

\* threadsToProcess of processInvoiceEmails (lines 615-638) for a non-empty
\* search result, with CONFIG.MAX_THREADS_PER_RUN = maxThreadsPerRun
BalanceThreadsFor(threads, maxThreadsPerRun) ==
  LET maxThreads == Min(Len(threads), maxThreadsPerRun)
      months == SortedMonths({ ThreadMonth(threads[i]) : i \in 1..Len(threads) })
      threadsPerMonth == Ceil(maxThreads, Len(months))
      taken == SliceByMonth(threads, months, 0, threadsPerMonth)
      remainingThreads == SliceByMonth(threads, months, threadsPerMonth, Len(threads))
  IN  IF Len(taken) < maxThreads
      THEN taken \o SubSeq(remainingThreads, 1, Min(maxThreads - Len(taken), Len(remainingThreads)))
      ELSE taken

\* threadsToProcess of processInvoiceEmails
BalanceThreads(threads) == BalanceThreadsFor(threads, MAX_THREADS_PER_RUN)

(***************************************************************************)
(* State                                                                   *)
(***************************************************************************)
VARIABLES
  answerOf,             \* message id -> the answer the AI gives for it
  allThreads,           \* the threads GmailManager.searchInvoiceEmails returns
  sheet,                \* the ledger: sequence of rows, header first
  processed,            \* Storage 'processed_email_ids'
  files,                \* the files in Drive that are not trashed
  nextFile,             \* number of files created so far
  triggers,             \* installed triggers of processInvoiceEmails
  pc,                   \* position of the run: idle, batch, thread, message, finish
  runs,                 \* runs started so far
  threadsToProcess,     \* threadsToProcess of the run
  batchStart,           \* i of the batch loop
  batch,                \* the current batch
  batchPos,             \* position of the thread loop in the batch (1-based)
  messages,             \* messages of the current thread still to process
  result,               \* result of processThread, being built
  results,              \* results of processInvoiceEmails, being built
  consecutiveTimeouts,  \* the circuit-breaker counter
  isTimeLimitReached,
  elapsed,              \* Date.now() - startTime of the run
  last,                 \* history: the last message attempt
  streak,               \* history: message attempts in a row that timed out
  breach,               \* history: batchStart when streak first reached 2, or -1
  disturbed,            \* history: steps so far in which the environment failed or was slow
  entry,                \* history: how the current run was started
  messageErrors,        \* history: message attempts of the run that ended in an
                        \* exception processThread does not classify as a timeout
  now,                  \* Date.now(), in ms
  _calls,               \* VertexAI._rateLimiter._calls
  xpc,                  \* position of extractInvoiceData: idle, attempt
  attempt,              \* attempt of the retry loop
  startTime,            \* startTime of extractInvoiceData
  extraction,           \* the outcome of the last extractInvoiceData
  extractions,          \* history: calls of extractInvoiceData so far
  apiCalls,             \* history: calls of _callAPI in this extractInvoiceData
  timeoutAt,            \* history: apiCalls when a timeout was first raised, or -1
  apiFailures,          \* history: iterations so far in which _callAPI failed or was
                        \* slow, or the preparation of the call was slow
  recordCalls,          \* history: calls of recordCall in this extractInvoiceData
  lastIteration,        \* history: the last iteration of the retry loop
  parsed,               \* what _parseResponse returned (extractInvoiceData, line 595)
  invoiceData,          \* invoiceData of extractInvoiceData after the normalisation
  valid,                \* what _isValidInvoice returned: "yes", "no"; "none" before
  stage,                \* position in lines 595-628: parsed, normalized, validated
  call,                 \* a single operation invoked on its own: its name and arguments
  ret                   \* what that operation returned; NotCalled before it has run

pipelineVars ==
  << answerOf, allThreads, sheet, processed, files, nextFile, triggers, pc, runs,
     threadsToProcess, batchStart, batch, batchPos, messages, result, results,
     consecutiveTimeouts, isTimeLimitReached, elapsed, last, streak, breach,
     disturbed, entry, messageErrors >>

extractVars ==
  << now, _calls, xpc, attempt, startTime, extraction, extractions, apiCalls,
     timeoutAt, apiFailures, recordCalls, lastIteration >>

recordVars == << parsed, invoiceData, valid, stage >>

callVars == << call, ret >>

vars == << pipelineVars, extractVars, recordVars, callVars >>

ZeroResult == [processed |-> 0, created |-> 0, skipped |-> 0]

ZeroResults == [processed |-> 0, created |-> 0, errors |-> 0, skipped |-> 0]

NoAttempt ==
  [msg |-> "none", kind |-> "none", why |-> "none", err |-> NoError,
   answered |-> FALSE, answer |-> NotInvoiceAnswer, file |-> 0,
   rowsBefore |-> 0, markedBefore |-> FALSE, fault |-> "none"]

NoExtraction == [kind |-> "none", err |-> NoError, value |-> NoExtract]

\* no iteration of the retry loop has run
NoIteration ==
  [attempt |-> 0, recorded |-> 0, called |-> FALSE, raised |-> NoError,
   slept |-> 0, next |-> "none"]

\* the script is loaded and nothing has run
PipelineStart ==
  /\ sheet = <<>>
  /\ processed = <<>>
  /\ files = {}
  /\ nextFile = 0
  /\ triggers = {}
  /\ pc = "idle"
  /\ runs = 0
  /\ threadsToProcess = <<>>
  /\ batchStart = 0
  /\ batch = <<>>
  /\ batchPos = 1
  /\ messages = <<>>
  /\ result = ZeroResult
  /\ results = ZeroResults
  /\ consecutiveTimeouts = 0
  /\ isTimeLimitReached = FALSE
  /\ elapsed = 0
  /\ last = NoAttempt
  /\ streak = 0
  /\ breach = -1
  /\ disturbed = 0
  /\ entry = "none"
  /\ messageErrors = 0

ExtractStart ==
  /\ now = 0
  /\ _calls = <<>>
  /\ xpc = "idle"
  /\ attempt = 0
  /\ startTime = 0
  /\ extraction = NoExtraction
  /\ extractions = 0
  /\ apiCalls = 0
  /\ timeoutAt = -1
  /\ apiFailures = 0
  /\ recordCalls = 0
  /\ lastIteration = NoIteration

\* no answer of the AI is being examined
RecordStart ==
  /\ parsed = NotInvoiceAnswer
  /\ invoiceData = NoData
  /\ valid = "none"
  /\ stage = "parsed"

NotCalled == [op |-> "none"]

\* no operation is invoked on its own
CallStart ==
  /\ call = NotCalled
  /\ ret = NotCalled

Init ==
  /\ answerOf \in Mailboxes
  /\ allThreads = Threads
  /\ PipelineStart
  /\ ExtractStart
  /\ RecordStart
  /\ CallStart

(***************************************************************************)
(* processInvoiceEmails                                                    *)
(***************************************************************************)
\* lines 565-665: search, balance, initialise the run
BeginRun ==
  /\ threadsToProcess' = BalanceThreads(allThreads)
  /\ batchStart' = 0
  /\ batch' = <<>>
  /\ batchPos' = 1
  /\ messages' = <<>>
  /\ result' = ZeroResult
  /\ results' = ZeroResults
  /\ consecutiveTimeouts' = 0
  /\ isTimeLimitReached' = FALSE
  /\ elapsed' = 0
  /\ streak' = 0
  /\ breach' = -1
  /\ messageErrors' = 0
  /\ runs' = runs + 1
  /\ pc' = "batch"

\* the entry point, invoked by a trigger or from the menu
StartRun ==
  /\ pc = "idle"
  /\ runs < MaxRuns
  /\ BeginRun
  /\ entry' = "processInvoiceEmails"
  /\ UNCHANGED << extractVars, recordVars, callVars, allThreads, disturbed, answerOf, sheet, processed, files, nextFile, triggers, last >>

\* FORCE_REPROCESS_ALL (src/99_Test.js): clear the processed ids, then run
FORCE_REPROCESS_ALL ==
  /\ pc = "idle"
  /\ runs < MaxRuns
  /\ processed' = clearProcessedEmails
  /\ BeginRun
  /\ entry' = "FORCE_REPROCESS_ALL"
  /\ UNCHANGED << extractVars, recordVars, callVars, allThreads, disturbed, answerOf, sheet, files, nextFile, triggers, last >>

\* setupTrigger: replace the triggers of the entry point by the periodic one
setupTrigger ==
  /\ pc = "idle"
  /\ runs = 0
  /\ triggers # {"everyHours6"}
  /\ triggers' = {"everyHours6"}
  /\ UNCHANGED << extractVars, recordVars, callVars, allThreads, entry, messageErrors, disturbed, answerOf, sheet, processed, files, nextFile, pc, runs,
                  threadsToProcess, batchStart, batch, batchPos, messages, result,
                  results, consecutiveTimeouts, isTimeLimitReached, elapsed, last,
                  streak, breach >>

\* head of the batch loop (lines 667-693)
NextBatch ==
  /\ pc = "batch"
  /\ IF batchStart >= Len(threadsToProcess)
     THEN /\ pc' = "finish"
          /\ UNCHANGED << isTimeLimitReached, batch, batchPos >>
     ELSE IF elapsed > MAX_EXECUTION_TIME_MS
     THEN /\ isTimeLimitReached' = TRUE
          /\ pc' = "finish"
          /\ UNCHANGED << batch, batchPos >>
     ELSE /\ batch' = SubSeq(threadsToProcess, batchStart + 1,
                             Min(batchStart + BATCH_SIZE, Len(threadsToProcess)))
          /\ batchPos' = 1
          /\ pc' = "thread"
          /\ UNCHANGED isTimeLimitReached
  /\ UNCHANGED << extractVars, recordVars, callVars, allThreads, entry, messageErrors, disturbed, answerOf, sheet, processed, files, nextFile, triggers, runs,
                  threadsToProcess, batchStart, messages, result, results,
                  consecutiveTimeouts, elapsed, last, streak, breach >>

\* the end of one iteration of the batch loop: the pause (lines 772-775) and i += BATCH_SIZE
LeaveBatch ==
  /\ elapsed' = IF batchStart + BATCH_SIZE < Len(threadsToProcess)
                THEN elapsed + 100 ELSE elapsed
  /\ batchStart' = batchStart + BATCH_SIZE
  /\ pc' = "batch"

\* head of the thread loop (lines 695-709) when the loop ends: the batch is
\* exhausted, or the run budget is found exceeded (break)
EndBatch ==
  /\ pc = "thread"
  /\ \/ batchPos > Len(batch) /\ UNCHANGED isTimeLimitReached
     \/ /\ batchPos <= Len(batch)
        /\ elapsed > MAX_EXECUTION_TIME_MS
        /\ isTimeLimitReached' = TRUE
  /\ LeaveBatch
  /\ UNCHANGED << extractVars, recordVars, callVars, allThreads, entry, messageErrors, disturbed, answerOf, sheet, processed, files, nextFile, triggers, runs,
                  threadsToProcess, batch, batchPos, messages, result, results,
                  consecutiveTimeouts, last, streak, breach >>

\* GmailManager.processThread: the messages of the thread not yet processed
UnprocessedMessages(t, ids) ==
  SelectSeq(ThreadMessages(t), LAMBDA m : ~isEmailProcessed(ids, m))

\* processThread is called and GmailManager.processThread returns (line 910)
EnterThread ==
  /\ pc = "thread"
  /\ batchPos <= Len(batch)
  /\ ~(elapsed > MAX_EXECUTION_TIME_MS)
  /\ messages' = UnprocessedMessages(batch[batchPos], processed)
  /\ result' = ZeroResult
  /\ pc' = "message"
  /\ UNCHANGED << extractVars, recordVars, callVars, allThreads, entry, messageErrors, disturbed, answerOf, sheet, processed, files, nextFile, triggers, runs,
                  threadsToProcess, batchStart, batch, batchPos, results,
                  consecutiveTimeouts, isTimeLimitReached, elapsed, last, streak,
                  breach >>

\* processThread is called and GmailManager.processThread throws e: the outer
\* catch of processThread (lines 959-981), then lines 722-769 of the run
ThreadFails ==
  /\ pc = "thread"
  /\ batchPos <= Len(batch)
  /\ ~(elapsed > MAX_EXECUTION_TIME_MS)
  /\ disturbed < MaxDisturbed
  /\ \E e \in {ServiceError, ServiceTimeoutError} :
       IF IsTimeoutForThread(e)
       THEN \* processThread returns the empty result
            /\ UNCHANGED << results, consecutiveTimeouts, streak >>
            /\ batchPos' = batchPos + 1
            /\ UNCHANGED << pc, batchStart, elapsed >>
       ELSE \* processThread rethrows
            /\ results' = [results EXCEPT !.errors = @ + 1]
            /\ streak' = 0
            /\ IF IsTimeoutForRun(e)
               THEN /\ consecutiveTimeouts' = consecutiveTimeouts + 1
                    /\ IF consecutiveTimeouts + 1 >= MAX_CONSECUTIVE_TIMEOUTS
                       THEN LeaveBatch /\ UNCHANGED batchPos
                       ELSE /\ batchPos' = batchPos + 1
                            /\ UNCHANGED << pc, batchStart, elapsed >>
               ELSE /\ consecutiveTimeouts' = 0
                    /\ batchPos' = batchPos + 1
                    /\ UNCHANGED << pc, batchStart, elapsed >>
  /\ disturbed' = disturbed + 1
  /\ UNCHANGED << extractVars, recordVars, callVars, allThreads, entry, messageErrors, answerOf, sheet, processed, files, nextFile,
                  triggers, runs, threadsToProcess, batch, messages, result, isTimeLimitReached,
                  last, breach >>

\* The times the environment may take for one message, in ms: <<time before
\* the extraction, time inside extractInvoiceData>>.  A negligible time is 0.
Timings == { <<0, 0>>, <<12000, 34000>>, <<301000, 0>> }

Faults == {"none", "saveAttachment", "registerInvoice"}

\* the environment neither fails nor is slow
Calm(ext, d, fault) == ext = NoError /\ d = <<0, 0>> /\ fault = "none"

\* the inputs explored: at most one of a failing extraction, a slow message
\* and a failing collaborator in one message attempt
OneAtATime(ext, d, fault) ==
  \/ d = <<0, 0>> /\ fault = "none"
  \/ ext = NoError /\ fault = "none"
  \/ ext = NoError /\ d = <<0, 0>>

\* a message attempt failed for a timeout: the extraction budget, the message
\* budget or the single-call budget was exceeded
IsTimeoutFailure(r) ==
  /\ r.kind # "created"
  /\ r.err \in {ExtractionTimeoutError, MessageTimeoutError, TookTooLongError}

\* one iteration of the message loop of processThread (lines 912-957)
ProcessNextMessage ==
  /\ pc = "message"
  /\ messages # <<>>
  /\ \E ext \in ExtractionFailures \cup {NoError}, d \in Timings, fault \in Faults :
       LET m == Head(messages)
       IN
       /\ OneAtATime(ext, d, fault)
       /\ Calm(ext, d, fault) \/ disturbed < MaxDisturbed
       /\ \E r \in { processMessage(m, answerOf[m], ext, d[1], d[2], fault,
                                    sheet, processed, files, nextFile) } :
           /\ disturbed' = IF Calm(ext, d, fault) THEN disturbed ELSE disturbed + 1
           /\ sheet' = r.sheet
           /\ files' = r.files
           /\ nextFile' = r.nextFile
           /\ elapsed' = elapsed + r.dur
           /\ IF r.kind = "created"
              THEN /\ processed' = markEmailProcessed(r.processed, m)
                   /\ result' = [result EXCEPT !.created = @ + 1, !.processed = @ + 1]
              ELSE IF r.kind = "null"
              THEN /\ processed' = r.processed
                   /\ result' = [result EXCEPT !.skipped = @ + 1, !.processed = @ + 1]
              ELSE IF IsTimeoutForThreadMessage(r.err)
              THEN /\ processed' = r.processed
                   /\ result' = [result EXCEPT !.skipped = @ + 1, !.processed = @ + 1]
              ELSE /\ processed' = r.processed
                   /\ result' = [result EXCEPT !.processed = @ + 1]
           /\ last' = [msg |-> m, kind |-> r.kind, why |-> r.why, err |-> r.err,
                       answered |-> r.answered, answer |-> answerOf[m],
                       file |-> r.file, rowsBefore |-> Len(sheet),
                       markedBefore |-> isEmailProcessed(processed, m),
                       fault |-> fault]
           /\ messageErrors' =
                IF r.kind = "throw" /\ ~IsTimeoutForThreadMessage(r.err)
                THEN messageErrors + 1 ELSE messageErrors
           /\ streak' = IF IsTimeoutFailure(r) THEN streak + 1 ELSE 0
           /\ breach' = IF breach = -1 /\ IsTimeoutFailure(r) /\ streak + 1 >= 2
                        THEN batchStart ELSE breach
  /\ messages' = Tail(messages)
  /\ UNCHANGED << extractVars, recordVars, callVars, allThreads, entry, answerOf, triggers, pc, runs, threadsToProcess, batchStart, batch,
                  batchPos, results, consecutiveTimeouts, isTimeLimitReached >>

\* processThread returns its result; lines 722-729 of the run
ThreadDone ==
  /\ pc = "message"
  /\ messages = <<>>
  /\ results' = [results EXCEPT !.processed = @ + result.processed,
                                !.created = @ + result.created,
                                !.skipped = @ + result.skipped]
  /\ consecutiveTimeouts' =
       IF result.processed > 0 \/ result.created > 0 THEN 0 ELSE consecutiveTimeouts
  /\ batchPos' = batchPos + 1
  /\ pc' = "thread"
  /\ result' = ZeroResult
  /\ last' = NoAttempt
  /\ UNCHANGED << extractVars, recordVars, callVars, allThreads, entry, messageErrors, disturbed, answerOf, sheet, processed, files, nextFile, triggers, runs,
                  threadsToProcess, batchStart, batch, messages,
                  isTimeLimitReached, elapsed, streak, breach >>

\* lines 778-804: the run returns `results`; setupNextTrigger when the budget
\* was hit.  The locals of the run are discarded.
FinishRun ==
  /\ pc = "finish"
  /\ triggers' = IF isTimeLimitReached THEN {"after60s"} ELSE triggers
  /\ pc' = "idle"
  /\ threadsToProcess' = <<>>
  /\ batchStart' = 0
  /\ batch' = <<>>
  /\ batchPos' = 1
  /\ consecutiveTimeouts' = 0
  /\ isTimeLimitReached' = FALSE
  /\ elapsed' = 0
  /\ streak' = 0
  /\ breach' = -1
  /\ entry' = "none"
  /\ UNCHANGED << extractVars, recordVars, callVars, allThreads, messageErrors, disturbed, answerOf, sheet, processed, files, nextFile, runs, messages,
                  result, results, last >>

Next ==
  \/ StartRun
  \/ FORCE_REPROCESS_ALL
  \/ setupTrigger
  \/ NextBatch
  \/ EndBatch
  \/ EnterThread
  \/ ThreadFails
  \/ ProcessNextMessage
  \/ ThreadDone
  \/ FinishRun

Spec == Init /\ [][Next]_vars

(***************************************************************************)
(* The same run on a mailbox in which the search finds one thread more     *)
(* than MAX_THREADS_PER_RUN lets a run select.                             *)
(***************************************************************************)
\* the mailbox with a fourth thread, t5 of 2025-12, holding message m6
LargeMailbox ==
  [m \in MessageIds \cup {"m6"} |->
     IF m = "m6" THEN NotInvoiceAnswer
     ELSE Mailbox(AcmeAnswer, CarlesAnswer, NotInvoiceAnswer)[m]]

InitBudget ==
  /\ answerOf = LargeMailbox
  /\ allThreads = Threads \o <<"t5">>
  /\ PipelineStart
  /\ ExtractStart
  /\ RecordStart
  /\ CallStart

SpecBudget == InitBudget /\ [][Next]_vars

(***************************************************************************)
(* VertexAI.extractInvoiceData, step by step, on the clock `now`            *)
(***************************************************************************)
\* calls of extractInvoiceData that are explored
MaxExtractions == 2

\* the `timeout` option of the UrlFetchApp.fetch call of _callAPI, in ms
ClientTimeoutMs == 25000

\* the times a call of the AI endpoint may take, in ms
CallTimes == {1000, 21000}

\* the times that may pass before extractInvoiceData is called again, in ms
IdleTimes == {0, 30000, 61000}

ApiOutcomes == {"ok", "socketTimeout", "http429", "error"}

\* Math.random() * 1000
Jitters == {0, 999}

\* the times that may pass between recordCall and the call of the endpoint, in
\* ms: none, or more than the extraction deadline allows
PrepTimes == {0, 36000}

\* the endpoint answers, and within the single-call budget
QuickAnswer(d, out) == out = "ok" /\ d <= MAX_VERTEX_AI_CALL_TIME_MS

\* number of iterations of the retry loop, in one behaviour, in which the
\* call of the AI endpoint fails or is slow or its preparation is slow
MaxApiFailures == 3

TimeoutFailures == {TookTooLongError, ExtractionTimeoutError}

\* the script is loaded for a new execution: _calls is the empty array again
LoadScript ==
  /\ xpc = "idle"
  /\ extractions < MaxExtractions
  /\ _calls # <<>>
  /\ _calls' = <<>>
  /\ UNCHANGED << pipelineVars, recordVars, callVars, now, xpc, attempt, startTime, extraction,
                  extractions, apiCalls, timeoutAt, apiFailures, recordCalls,
                  lastIteration >>

\* extractInvoiceData is called, `idle` ms after the last step: lines 508-532
ExtractBegin ==
  /\ xpc = "idle"
  /\ extractions < MaxExtractions
  /\ \E idle \in IdleTimes :
     \E w \in { waitIfNeeded(_calls, now + idle) } :
       /\ _calls' = w.calls
       /\ now' = w.now
       /\ startTime' = now + idle
       /\ IF ExtractionTimedOut(w.now, now + idle)
          THEN /\ xpc' = "idle"
               /\ attempt' = 0
               /\ extraction' = [kind |-> "throw", err |-> ExtractionTimeoutError,
                                 value |-> NoExtract]
               /\ timeoutAt' = 0
          ELSE /\ xpc' = "attempt"
               /\ attempt' = 1
               /\ extraction' = NoExtraction
               /\ timeoutAt' = -1
  /\ apiCalls' = 0
  /\ recordCalls' = 0
  /\ lastIteration' = NoIteration
  /\ extractions' = extractions + 1
  /\ UNCHANGED << pipelineVars, recordVars, callVars, apiFailures >>

\* one iteration of the retry loop: lines 534-703
Attempt ==
  /\ xpc = "attempt"
  /\ \E prep \in PrepTimes, d \in CallTimes, out \in ApiOutcomes, jitter \in Jitters,
        ans \in {AcmeAnswer, NotInvoiceAnswer} :
       /\ out = "ok" \/ ans = AcmeAnswer
       /\ out \in {"socketTimeout", "http429"} \/ jitter = 0
       /\ prep = 0 \/ QuickAnswer(d, out)
       /\ (QuickAnswer(d, out) /\ prep = 0) \/ apiFailures < MaxApiFailures
       /\ apiFailures' = IF QuickAnswer(d, out) /\ prep = 0
                         THEN apiFailures ELSE apiFailures + 1
       /\ \E r \in { retryIteration(attempt, MAX_RETRIES, startTime, now, _calls,
                                 prep, d, out, jitter, ans) } :
         /\ now' = r.now
         /\ recordCalls' = recordCalls + (Len(r.calls) - Len(_calls))
         /\ lastIteration' =
              [attempt  |-> attempt,
               recorded |-> Len(r.calls) - Len(_calls),
               called   |-> r.called,
               raised   |-> r.raised,
               slept    |-> r.now - (IF r.called THEN now + prep + d
                                     ELSE IF Len(r.calls) > Len(_calls) THEN now + prep
                                     ELSE now),
               next     |-> r.next]
         /\ _calls' = r.calls
         /\ apiCalls' = IF r.called THEN apiCalls + 1 ELSE apiCalls
         /\ timeoutAt' =
              IF timeoutAt = -1 /\ (r.raised \in TimeoutFailures \/ r.err \in TimeoutFailures)
              THEN IF r.called THEN apiCalls + 1 ELSE apiCalls
              ELSE timeoutAt
         /\ IF r.next = "attempt"
            THEN /\ attempt' = attempt + 1
                 /\ UNCHANGED << xpc, extraction >>
            ELSE /\ attempt' = 0
                 /\ xpc' = "idle"
                 /\ extraction' =
                      IF r.next = "throw"
                      THEN [kind |-> "throw", err |-> r.err, value |-> NoExtract]
                      ELSE [kind |-> "return", err |-> NoError, value |-> r.data]
  /\ UNCHANGED << pipelineVars, recordVars, callVars, startTime, extractions >>

NextExtract ==
  \/ LoadScript
  \/ ExtractBegin
  \/ Attempt

InitExtract ==
  /\ answerOf = Mailbox(AcmeAnswer, AcmeAnswer, AcmeAnswer)
  /\ allThreads = Threads
  /\ PipelineStart
  /\ ExtractStart
  /\ RecordStart
  /\ CallStart

SpecExtract == InitExtract /\ [][NextExtract]_vars

(***************************************************************************)
(* extractInvoiceData, lines 595-628: the parsed answer is normalised and   *)
(* then validated.  The answers examined are drawn from bounded sets of    *)
(* field values.                                                           *)
(***************************************************************************)
\* provider names: absent, blank, plain, an issuing entity, a marketing word
Proveedores ==
  { <<>>, <<" ">>, <<"A","c","m","e">>,
    <<"I","P","R","O","N","I","C","S"," ","S","L">>,
    <<"A","c","m","e"," ","M","a","r","k","e","t","i","n","g">> }

\* invoice numbers: absent, blank, present
Numeros == { <<>>, <<" ">>, <<"A","-","7","9">> }

\* concepts: absent, naming an issuing entity, a marketing word
Conceptos ==
  { <<>>, <<"u","s","o"," ","I","n","t","e","l","e","c","t","i","u","m">>,
    <<"N","e","w","s","l","e","t","t","e","r">> }

\* answers whose amounts are numbers or null already
ValidatorAnswers ==
  { Answer(e, p, n, c, sinIVA, iva, total) :
      e \in BOOLEAN, p \in Proveedores, n \in Numeros, c \in Conceptos,
      sinIVA \in {Null, Num(100000)}, iva \in {Null, Num(0)},
      total \in {Null, Num(0), Num(12500)} }

\* longest amount string that is enumerated
MaxAmountLen == 3

AmountChars == {"0", "5", "7", ",", ".", "-", " ", "a"}

RECURSIVE StringsOfLength(_)
StringsOfLength(n) ==
  IF n = 0 THEN {<<>>}
  ELSE { Append(x, c) : x \in StringsOfLength(n - 1), c \in AmountChars }

\* every string of AmountChars up to MaxAmountLen characters
AmountStrings == UNION { StringsOfLength(k) : k \in 0..MaxAmountLen }

\* longer amount strings: those of scenario A, a zero, a thousands separator,
\* a currency suffix, commas as thousands separators
ExampleAmounts ==
  { <<"7","7","8">>, <<"1","6","3",",","3","8">>, <<"8","2","4",",","6","8">>,
    <<"0",",","0","0">>, <<"1",".","2","3","4",",","5","6">>,
    <<"1","2",",","5"," ","E","U","R">>,
    <<"1",",","2","3","4",",","5","6","7">> }

\* the values the AI may put in a monetary field
RawAmounts ==
  {Null, NaN, Num(0), Num(12500), Num(0 - 5000)}
    \cup { Str(x) : x \in AmountStrings \cup ExampleAmounts }

AmountFields == {"importeSinIVA", "iva", "importeTotal"}

\* a receipt (provider, no invoice number) with one monetary field given
AmountAnswers ==
  { [ReceiptAnswer EXCEPT !.importeTotal = Null, ![f] = v] :
      f \in AmountFields, v \in RawAmounts }

\* lines 598-621: the three monetary fields are normalised
NormalizeNumbers ==
  /\ stage = "parsed"
  /\ invoiceData' = Normalize(parsed)
  /\ stage' = "normalized"
  /\ UNCHANGED << pipelineVars, extractVars, callVars, parsed, valid >>

\* lines 623-628: the normalised record is validated
ValidateInvoice ==
  /\ stage = "normalized"
  /\ valid' = IF _isValidInvoice(invoiceData) THEN "yes" ELSE "no"
  /\ stage' = "validated"
  /\ UNCHANGED << pipelineVars, extractVars, callVars, parsed, invoiceData >>

NextRecord ==
  \/ NormalizeNumbers
  \/ ValidateInvoice

InitRecord ==
  /\ answerOf = Mailbox(AcmeAnswer, AcmeAnswer, AcmeAnswer)
  /\ allThreads = Threads
  /\ PipelineStart
  /\ ExtractStart
  /\ parsed \in ValidatorAnswers \cup AmountAnswers
  /\ invoiceData = NoData
  /\ valid = "none"
  /\ stage = "parsed"
  /\ CallStart

SpecRecord == InitRecord /\ [][NextRecord]_vars

(***************************************************************************)
(* SheetsManager.invoiceExists called on its own, with the ledger and the  *)
(* candidate drawn from bounded sets.  The ledger is a spreadsheet: its    *)
(* rows are whatever was appended or typed into it.                        *)
(***************************************************************************)
\* providers of a candidate: absent, plain, in another spelling, an alias
CandidateProveedores ==
  { <<>>, <<"A","c","m","e">>, <<" ","A","C","M","E">>,
    <<"I","P","R","O","N","I","C","S"," ","S","L">> }

\* invoice numbers of a candidate: absent, two numbers, one with a blank
CandidateNumeros ==
  { <<>>, <<"A","-","7","9">>, <<"A","-","7","9"," ">>, <<"B","-","1">> }

\* file URLs of a candidate: none, the first and the second file of Drive
CandidateFileUrls == { getFileUrl(0), getFileUrl(1), getFileUrl(2) }

\* a row of the ledger with provider p, invoice number n and file URL u
LedgerRow(p, n, u) ==
  [ proveedor     |-> p,
    numeroFactura |-> n,
    concepto      |-> <<>>,
    importeSinIVA |-> Num(0),
    iva           |-> Num(0),
    importeTotal  |-> Num(0),
    fileUrl       |-> u,
    msg           |-> "row" ]

LedgerRows ==
  { LedgerRow(p, n, u) :
      p \in { <<>>, <<"A","c","m","e">>,
              <<"I","P","R","O","N","I","C","S"," ","S","L">> },
      n \in { <<>>, <<"A","-","7","9">>, <<"B","-","1">> },
      u \in { getFileUrl(0), getFileUrl(1) } }

\* a row that matches no candidate
FillerRow == LedgerRow(<<"O","l","d">>, <<"Z","-","0">>, getFileUrl(0))

\* the ledgers examined: new, with one or two rows under the header, and
\* with one row followed by rowsToCheck newer ones
Ledgers ==
  { <<>>, <<HeaderRow>> }
    \cup { <<HeaderRow, r>> : r \in LedgerRows }
    \cup { <<HeaderRow, r1, r2>> : r1 \in LedgerRows, r2 \in LedgerRows }
    \cup { <<HeaderRow, r>> \o [i \in 1..rowsToCheck |-> FillerRow] : r \in LedgerRows }

InvoiceExistsCalls ==
  { [op |-> "invoiceExists", sheet |-> sh, numeroFactura |-> n,
     proveedor |-> p, fileUrl |-> u] :
      sh \in Ledgers, n \in CandidateNumeros, p \in CandidateProveedores,
      u \in CandidateFileUrls }

\* invoiceExists runs and returns
CallInvoiceExists ==
  /\ call.op = "invoiceExists"
  /\ ret = NotCalled
  /\ ret' = [op |-> "invoiceExists",
             value |-> invoiceExists(call.sheet, call.numeroFactura,
                                     call.proveedor, call.fileUrl)]
  /\ UNCHANGED << pipelineVars, extractVars, recordVars, call >>

NextLedger == CallInvoiceExists

InitLedger ==
  /\ answerOf = Mailbox(AcmeAnswer, AcmeAnswer, AcmeAnswer)
  /\ allThreads = Threads
  /\ PipelineStart
  /\ ExtractStart
  /\ RecordStart
  /\ call \in InvoiceExistsCalls
  /\ ret = NotCalled

SpecLedger == InitLedger /\ [][NextLedger]_vars

(***************************************************************************)
(* The selection of the threads of a run (processInvoiceEmails, lines      *)
(* 594-638) on its own, for search results drawn from six threads of       *)
(* three months and for every cap up to MAX_THREADS_PER_RUN.               *)
(***************************************************************************)
SearchableThreads == {"t1", "t2", "t3", "t4", "t5", "t6"}

\* every non-empty list of distinct threads: GmailManager.searchInvoiceEmails
RECURSIVE Arrangements(_)
Arrangements(S) ==
  {<<>>} \cup UNION { { <<t>> \o rest : rest \in Arrangements(S \ {t}) } : t \in S }

SearchResults == Arrangements(SearchableThreads) \ {<<>>}

BalanceCalls ==
  { [op |-> "balance", threads |-> ts, maxThreadsPerRun |-> cap] :
      ts \in SearchResults, cap \in 1..MAX_THREADS_PER_RUN }

\* lines 594-638 run: the threads of the run are selected
CallBalance ==
  /\ call.op = "balance"
  /\ ret = NotCalled
  /\ ret' = [op |-> "balance",
             threadsToProcess |-> BalanceThreadsFor(call.threads, call.maxThreadsPerRun)]
  /\ UNCHANGED << pipelineVars, extractVars, recordVars, call >>

NextBalance == CallBalance

InitBalance ==
  /\ answerOf = Mailbox(AcmeAnswer, AcmeAnswer, AcmeAnswer)
  /\ allThreads = Threads
  /\ PipelineStart
  /\ ExtractStart
  /\ RecordStart
  /\ call \in BalanceCalls
  /\ ret = NotCalled

SpecBalance == InitBalance /\ [][NextBalance]_vars

(***************************************************************************)
(* VertexAI._rateLimiter on its own: canCall, recordCall and waitIfNeeded  *)
(* are called in any order while the clock advances, for every _maxCalls   *)
(* from 0 to RATE_LIMIT_CALLS_PER_MINUTE.                                  *)
(***************************************************************************)
\* the clock is not advanced beyond this time, in ms
LimiterHorizon == 70000

\* recordCall is not called on an array of this length
MaxRecorded == 3

\* the times that may pass between two calls of the limiter, in ms
LimiterTicks == {9000, 51000}

Returned(op, value, before, at, after, returnedAt, sleeps) ==
  [op |-> op, value |-> value, before |-> before, at |-> at, after |-> after,
   returnedAt |-> returnedAt, sleeps |-> sleeps]

\* time passes
Tick ==
  /\ \E dt \in LimiterTicks :
       /\ now + dt <= LimiterHorizon
       /\ now' = now + dt
  /\ UNCHANGED << pipelineVars, recordVars, callVars, _calls, xpc, attempt, startTime,
                  extraction, extractions, apiCalls, timeoutAt, apiFailures,
                  recordCalls, lastIteration >>

\* _rateLimiter.canCall()
CanCall ==
  /\ \E c \in { canCallWith(_calls, now, call._maxCalls) } :
       /\ _calls' = c.calls
       /\ ret' = Returned("canCall", c.ok, _calls, now, c.calls, now, <<>>)
  /\ UNCHANGED << pipelineVars, recordVars, call, now, xpc, attempt, startTime,
                  extraction, extractions, apiCalls, timeoutAt, apiFailures,
                  recordCalls, lastIteration >>

\* _rateLimiter.recordCall()
RecordCall ==
  /\ Len(_calls) < MaxRecorded
  /\ _calls' = recordCall(_calls, now)
  /\ ret' = Returned("recordCall", TRUE, _calls, now, recordCall(_calls, now), now, <<>>)
  /\ UNCHANGED << pipelineVars, recordVars, call, now, xpc, attempt, startTime,
                  extraction, extractions, apiCalls, timeoutAt, apiFailures,
                  recordCalls, lastIteration >>

\* _rateLimiter.waitIfNeeded()
WaitIfNeeded ==
  /\ now <= LimiterHorizon
  /\ \E w \in { waitIfNeededWith(_calls, now, call._maxCalls) } :
       /\ _calls' = w.calls
       /\ now' = w.now
       /\ ret' = Returned("waitIfNeeded", TRUE, _calls, now, w.calls, w.now, w.sleeps)
  /\ UNCHANGED << pipelineVars, recordVars, call, xpc, attempt, startTime,
                  extraction, extractions, apiCalls, timeoutAt, apiFailures,
                  recordCalls, lastIteration >>

NextLimiter ==
  \/ Tick
  \/ CanCall
  \/ RecordCall
  \/ WaitIfNeeded

InitLimiter ==
  /\ answerOf = Mailbox(AcmeAnswer, AcmeAnswer, AcmeAnswer)
  /\ allThreads = Threads
  /\ PipelineStart
  /\ ExtractStart
  /\ RecordStart
  /\ call \in { [op |-> "_rateLimiter", _maxCalls |-> k] :
                  k \in 0..RATE_LIMIT_CALLS_PER_MINUTE }
  /\ ret = NotCalled

SpecLimiter == InitLimiter /\ [][NextLimiter]_vars

(***************************************************************************)
(* Properties                                                              *)
(***************************************************************************)
\* the rows of the ledger appended for message m
RowsOf(m) == { i \in 1..Len(sheet) : sheet[i].msg = m }

\* the rows the pipeline appended (row 1 is the header)
DataRows == 2..Len(sheet)

\* C1: whatever the sequence of runs, no message identity ever has two
\* ledger rows: once a message has produced a row, no later attempt on it
\* appends another one.
C1_OneRowPerMessage == \A m \in MessageIds : Cardinality(RowsOf(m)) <= 1

\* C2: in a run started by FORCE_REPROCESS_ALL (the processed ids cleared),
\* no attempt ends Created for a message that already has a ledger row: the
\* duplicate check of the ledger alone prevents the second row, receipts
\* without invoice number included.
C2_LedgerCheckAlone ==
  ~(/\ entry = "FORCE_REPROCESS_ALL"
    /\ last.kind = "created"
    /\ \E i \in 1..last.rowsBefore : sheet[i].msg = last.msg)

\* C3: no row appended by the pipeline has a provider or a concept that
\* contains, whatever the case of the letters, an alias of the issuing entity.
C3_NoSelfIssuedRow ==
  \A i \in DataRows :
    /\ ~MentionsEmisora(toLowerCase(sheet[i].proveedor))
    /\ ~MentionsEmisora(toLowerCase(sheet[i].concepto))

\* an answer naming the issuing entity was examined and rejected while the
\* ledger holds rows of other providers
C3_Witness ==
  /\ Len(sheet) >= 2
  /\ last.answered
  /\ last.why \in {"rejected", "bodyNotInvoice"}
  /\ \/ MentionsEmisora(toLowerCase(last.answer.proveedor))
     \/ MentionsEmisora(toLowerCase(last.answer.concepto))

C5_NotInvoiceSkipped ==
  (last.answered /\ last.answer.esFactura = FALSE)
    => /\ last.kind # "created"
       /\ Len(sheet) <= Max(last.rowsBefore, 1)
       /\ ~isEmailProcessed(processed, last.msg)
       /\ last.file \notin files

\* C6: every id in the processed set has a ledger row appended for it, and
\* an attempt whose ledger append threw leaves the id unmarked.
C6_MarkedOnlyAfterAppend ==
  /\ \A i \in 1..Len(processed) : RowsOf(processed[i]) # {}
  /\ (last.answered /\ last.fault = "registerInvoice" /\ last.err = ServiceError)
       => ~isEmailProcessed(processed, last.msg)

\* the ledger append threw for a message while other ids are marked
C6_Witness ==
  /\ last.answered
  /\ last.fault = "registerInvoice"
  /\ last.err = ServiceError
  /\ Len(processed) > 0

\* C8: once two message attempts in a row have failed with a timeout, no
\* thread of a later batch of that run is processed.
C8_BreakerStopsRun == ~(breach >= 0 /\ pc = "message" /\ batchStart > breach)

\* C9: between two threads the counter equals the number of message
\* attempts, counted back from the last one, that failed with a timeout
\* (incremented by each, reset by any other outcome).
C9_CounterTracksTimeouts ==
  pc \in {"thread", "batch", "finish"} => consecutiveTimeouts = streak

\* C7: the number of recorded call timestamps newer than 60 seconds never
\* exceeds the calls allowed per minute.
C7_WindowBounded == Len(Pruned(_calls, now)) <= RATE_LIMIT_CALLS_PER_MINUTE

\* C10: after a timeout failure (single-call budget or extraction budget
\* exceeded) inside extractInvoiceData, that call of extractInvoiceData
\* makes no further AI call.
C10_TimeoutNotRetried == ~(timeoutAt >= 0 /\ apiCalls > timeoutAt)

\* a message attempt that met a recoverable condition: a timeout (of the
\* message budget, the extraction budget, a single AI call or the socket), a
\* rejection by the validator or by the guard of the email-body path, or a
\* duplicate (by file name or in the ledger)
RecoverableAttempt(a) ==
  \/ a.why \in {"timeout", "rejected", "bodyNotInvoice", "duplicate", "filenameDuplicate"}
  \/ /\ a.kind = "throw"
     /\ a.err \in {ExtractionTimeoutError, TookTooLongError, SocketTimeoutError,
                   MessageTimeoutError}

\* C11: a message attempt that meets a timeout, a validator rejection or a
\* duplicate counts as skipped (skipped and processed of the thread result
\* +1, created unchanged), appends no ledger row, raises the error counter
\* of the run by nothing, and leaves the message loop and the thread loop in
\* place: the next message of the thread and the next thread of the batch
\* come next.
C11_RecoverableBecomesSkipped ==
  [][ (pc = "message" /\ messages' # messages /\ RecoverableAttempt(last'))
        => /\ result'.skipped = result.skipped + 1
           /\ result'.processed = result.processed + 1
           /\ result'.created = result.created
           /\ Max(Len(sheet'), 1) = Max(Len(sheet), 1)
           /\ results'.errors = results.errors
           /\ pc' = "message"
           /\ messages' = Tail(messages)
           /\ batch' = batch
           /\ batchPos' = batchPos ]_vars

\* a socket timeout was raised out of processMessage, the attempt was
\* counted as skipped and a message of the thread is still to come
C11_Witness ==
  /\ pc = "message"
  /\ last.kind = "throw"
  /\ last.err = SocketTimeoutError
  /\ result.skipped = 1
  /\ messages # <<>>

\* C12: at the end of a run the error counter of the summary has counted
\* every message attempt that ended in an exception other than a timeout.
C12_MessageErrorsCounted == pc = "finish" => results.errors >= messageErrors

\* C13: at the end of a run the summary adds up:
\* processed = created + skipped + errors.
C13_SummaryAddsUp ==
  pc = "finish"
    => results.processed = results.created + results.skipped + results.errors

\* a text field is empty: absent, '' or white space only
Blank(s) == trim(s) = <<>>

\* an amount is null or zero
NullOrZero(x) == x = Null \/ x = Num(0)

\* some marketing keyword occurs in the provider or in the concept
MentionsMarketing(d) ==
  \E keyword \in marketingKeywords :
    \/ includes(toLowerCase(d.proveedor), keyword)
    \/ includes(toLowerCase(d.concepto), keyword)

\* the decision of the six ordered rules, `empty` being Blank in every rule
SixRules(d) ==
  IF d.esFactura = FALSE THEN FALSE
  ELSE IF \/ MentionsEmisora(toLowerCase(d.proveedor))
          \/ MentionsEmisora(toLowerCase(d.concepto)) THEN FALSE
  ELSE IF Blank(d.proveedor) /\ Blank(d.numeroFactura) THEN FALSE
  ELSE IF /\ Blank(d.numeroFactura)
          /\ NullOrZero(d.importeSinIVA)
          /\ NullOrZero(d.iva)
          /\ NullOrZero(d.importeTotal) THEN FALSE
  ELSE IF /\ MentionsMarketing(d)
          /\ Blank(d.numeroFactura)
          /\ NullOrZero(d.importeTotal) THEN FALSE
  ELSE TRUE

\* C14: the validator returns the decision of the six ordered rules, the
\* first matching rule deciding, with the same notion of an empty field
\* (absent, '' or white space only) in every rule.
C14_SixOrderedRules ==
  stage = "validated" => ((valid = "yes") <=> SixRules(invoiceData))

\* C15: a record that is not declared a non-invoice, names no issuing
\* entity, has a provider, has no invoice number and has a non-zero amount
\* is accepted, whatever else its provider and concept contain.
C15_ReceiptAccepted ==
  ( /\ stage = "validated"
    /\ invoiceData.esFactura # FALSE
    /\ ~MentionsEmisora(toLowerCase(invoiceData.proveedor))
    /\ ~MentionsEmisora(toLowerCase(invoiceData.concepto))
    /\ ~Blank(invoiceData.proveedor)
    /\ invoiceData.numeroFactura = <<>>
    /\ \/ ~NullOrZero(invoiceData.importeSinIVA)
       \/ ~NullOrZero(invoiceData.iva)
       \/ ~NullOrZero(invoiceData.importeTotal) )
    => valid = "yes"

\* the records that agree with d on every field that rules 1..n read:
\* rule 1 reads esFactura, rule 2 the provider and the concept, rule 3 the
\* provider and the invoice number, rules 4 and 5 the amounts as well
Variants(d, n) ==
  IF n <= 0 THEN ValidatorAnswers
  ELSE IF n = 1
  THEN { Answer(d.esFactura, p, nf, c, sinIVA, iva, total) :
           p \in Proveedores, nf \in Numeros, c \in Conceptos,
           sinIVA \in {Null, Num(100000)}, iva \in {Null, Num(0)},
           total \in {Null, Num(0), Num(12500)} }
  ELSE IF n = 2
  THEN { Answer(d.esFactura, d.proveedor, nf, d.concepto, sinIVA, iva, total) :
           nf \in Numeros, sinIVA \in {Null, Num(100000)}, iva \in {Null, Num(0)},
           total \in {Null, Num(0), Num(12500)} }
  ELSE IF n = 3
  THEN { Answer(d.esFactura, d.proveedor, d.numeroFactura, d.concepto, sinIVA, iva, total) :
           sinIVA \in {Null, Num(100000)}, iva \in {Null, Num(0)},
           total \in {Null, Num(0), Num(12500)} }
  ELSE {d}

\* C16 as stated: when the validator rejects a record for rule N, every
\* record that differs from it only in fields that rules 1..N-1 do not read
\* is rejected too.
C16_MonotoneBelowRule ==
  (stage = "validated" /\ rejectedBy(invoiceData) >= 1)
    => \A r \in Variants(invoiceData, rejectedBy(invoiceData) - 1) : ~_isValidInvoice(r)

\* C16 as amended: when the validator rejects a record for rule N, every
\* record that differs from it only in fields that rules 1..N do not read
\* is rejected too.
C16_MonotoneUpToRule ==
  (stage = "validated" /\ rejectedBy(invoiceData) >= 1)
    => /\ valid = "no"
       /\ \A r \in Variants(invoiceData, rejectedBy(invoiceData)) : ~_isValidInvoice(r)

\* a record with amounts was rejected for want of provider and invoice number
C16_Witness ==
  /\ stage = "validated"
  /\ rejectedBy(invoiceData) = 3
  /\ hasAnyAmount(invoiceData)
  /\ valid = "no"

\* C17: in each monetary field a string becomes null exactly when parsing it
\* (the comma replaced by a point) yields not-a-number, a string that parses
\* to a number, zero included, becomes that number, and a number is left as
\* it is.
C17_NullOnlyForNaN ==
  stage # "parsed"
    => \A f \in AmountFields :
         /\ parsed[f].t = "str"
              => LET n == parseFloat(replaceFirst(parsed[f].s, ",", "."))
                 IN  /\ (invoiceData[f] = Null) <=> (n = NaN)
                     /\ n # NaN => invoiceData[f] = n
         /\ parsed[f].t = "num" => invoiceData[f] = parsed[f]

\* s is a run of digits
IsDigits(s) == s # <<>> /\ DigitRun(s) = Len(s)

\* s is digits, or digits, a comma and one to three digits
CommaAmount(s) ==
  \/ IsDigits(s)
  \/ \E k \in 1..(Len(s) - 2) :
       /\ s[k + 1] = ","
       /\ IsDigits(SubSeq(s, 1, k))
       /\ IsDigits(SubSeq(s, k + 2, Len(s)))
       /\ Len(s) - k - 1 <= 3

\* the decimal number a CommaAmount denotes, in thousandths
DecimalValue(s) ==
  LET k == DigitRun(s)
  IN  DigitsToInt(SubSeq(s, 1, k)) * 1000
        + (IF k = Len(s) THEN 0 ELSE FracToMilli(SubSeq(s, k + 2, Len(s))))

\* C18: an amount string of digits, with or without a comma and fraction
\* digits, is normalised to the decimal number with those integer and
\* fraction digits.
C18_CommaRoundTrip ==
  stage # "parsed"
    => \A f \in AmountFields :
         (parsed[f].t = "str" /\ CommaAmount(parsed[f].s))
           => invoiceData[f] = Num(DecimalValue(parsed[f].s))

\* the return statements of processMessage that precede every AI call
EarlyRejections == {"noPdf", "aliasInFilename", "filenameDuplicate", "nonInvoicePattern"}

\* extraction, validation and the duplicate check of the ledger sh would
\* let the content of message m, for which the AI answers ans, be registered
WouldRegister(m, ans, sh) ==
  /\ ~Extracted(ans).isNull
  /\ Len(Attachments(m)) = 0 => BodyInvoiceAccepted(Extracted(ans).data)
  /\ ~invoiceExists(sh, Extracted(ans).data.numeroFactura,
                    Extracted(ans).data.proveedor, <<>>)

\* C19: a message that processMessage skips before any AI call is one that
\* extraction, validation and the duplicate check would not have registered
\* either.
C19_EarlyRejectionConservative ==
  last.why \in EarlyRejections => ~WouldRegister(last.msg, last.answer, sheet)

WindowRows(sh) ==
  { sh[i] : i \in { k \in 1..Len(sh) : k > Len(sh) - rowsToCheck } }

\* the four conditions under which a candidate is to be taken for registered,
\* numbers compared trimmed and providers trimmed and in lower case
KnownToLedger(sh, numeroFactura, proveedor, fileUrl) ==
  \/ /\ trim(numeroFactura) # <<>>
     /\ \E row \in WindowRows(sh) : trim(row.numeroFactura) = trim(numeroFactura)
  \/ /\ trim(numeroFactura) # <<>>
     /\ trim(proveedor) # <<>>
     /\ \E row \in WindowRows(sh) :
          /\ trim(row.numeroFactura) = trim(numeroFactura)
          /\ trim(toLowerCase(row.proveedor)) = trim(toLowerCase(proveedor))
  \/ MentionsEmisora(toLowerCase(proveedor))
  \/ /\ fileUrl # <<>>
     /\ \E row \in WindowRows(sh) : row.fileUrl = fileUrl

\* C21: invoiceExists returns true exactly when, within the most recent
\* rowsToCheck rows, a row has the candidate's invoice number, or its provider
\* and number, or its file URL, or the candidate's provider contains an alias
\* of an issuing entity; it returns false in every other case.
C21_ExistsExactly ==
  (call.op = "invoiceExists" /\ ret # NotCalled) =>
    (ret.value <=> KnownToLedger(_getSheet(call.sheet), call.numeroFactura,
                                 call.proveedor, call.fileUrl))

\* the threads of sequence ts that are of month mo
OfMonth(ts, mo) == { ts[i] : i \in { k \in 1..Len(ts) : ThreadMonth(ts[k]) = mo } }

MonthsOf(ts) == { ThreadMonth(ts[i]) : i \in 1..Len(ts) }

\* ceil(min(candidate count, maxThreadsPerRun) / monthCount)
Quota(ts, cap) == Ceil(Min(Len(ts), cap), Cardinality(MonthsOf(ts)))

\* C22: balanced batching never starves a month: the threads selected for a
\* run are candidates, no thread is selected twice, and they include
\* min(quota, size of month) threads of every month that has a candidate, so
\* at least one thread of every such month.
C22_NoMonthStarved ==
  (call.op = "balance" /\ ret # NotCalled) =>
    LET sel == ret.threadsToProcess
    IN  /\ \A i \in 1..Len(sel) : \E j \in 1..Len(call.threads) : sel[i] = call.threads[j]
        /\ \A i, j \in 1..Len(sel) : sel[i] = sel[j] => i = j
        /\ \A mo \in MonthsOf(call.threads) :
             /\ Cardinality(OfMonth(sel, mo)) >=
                  Min(Quota(call.threads, call.maxThreadsPerRun),
                      Cardinality(OfMonth(call.threads, mo)))
             /\ Cardinality(OfMonth(sel, mo)) >= 1

\* a month all of whose threads come after the first maxThreadsPerRun search
\* results has one of them selected
C22_Witness ==
  /\ call.op = "balance"
  /\ ret # NotCalled
  /\ Len(call.threads) > call.maxThreadsPerRun
  /\ \E mo \in MonthsOf(call.threads) :
       /\ \A i \in 1..call.maxThreadsPerRun : ThreadMonth(call.threads[i]) # mo
       /\ OfMonth(ret.threadsToProcess, mo) # {}

\* C23: the number of threads selected for a run never exceeds the cap.
C23_SelectionWithinCap ==
  (call.op = "balance" /\ ret # NotCalled) =>
    Len(ret.threadsToProcess) <= call.maxThreadsPerRun

\* the threads of the search result that the run did not select
NotSelected ==
  { allThreads[i] : i \in 1..Len(allThreads) }
    \ { threadsToProcess[i] : i \in 1..Len(threadsToProcess) }

\* no thread is entered with the run budget exceeded
BudgetCheckedBeforeThread ==
  (pc = "thread" /\ (pc' = "message" \/ disturbed' # disturbed)) =>
    ~(elapsed > MAX_EXECUTION_TIME_MS)

\* once the budget was found exceeded, the run processes nothing more
NothingAfterBudget ==
  (isTimeLimitReached /\ pc # "idle") =>
    /\ pc' \in {"batch", "finish", "idle"}
    /\ sheet' = sheet /\ processed' = processed /\ files' = files
    /\ results' = results /\ disturbed' = disturbed

\* a run that found the budget exceeded ends with the continuation installed
ContinuationWhenFound ==
  (pc = "finish" /\ pc' = "idle" /\ isTimeLimitReached) => "after60s" \in triggers'

\* a run that ends over budget with candidates left has the continuation installed
ContinuationWhenLeft ==
  (pc = "finish" /\ pc' = "idle" /\ elapsed > MAX_EXECUTION_TIME_MS /\ NotSelected # {}) =>
    "after60s" \in triggers'

\* C24: the run budget is checked before each batch and each thread; once it
\* is found exhausted no further thread is processed and the one-shot
\* continuation trigger is installed before the run ends; and whenever a run
\* ends with its budget exhausted and candidates left unprocessed, the
\* continuation has been installed.
C24_BudgetAndContinuation ==
  [][ /\ BudgetCheckedBeforeThread
      /\ NothingAfterBudget
      /\ ContinuationWhenFound
      /\ ContinuationWhenLeft ]_vars

\* the timestamps of calls that are less than 60 s old at time `at`
YoungerThanWindow(calls, at) == SelectSeq(calls, LAMBDA t : at - t < WindowMs)

\* C25: canCall returns true if and only if, after removing every recorded
\* timestamp that is 60 seconds old or older, fewer than _maxCalls timestamps
\* remain, and it leaves exactly those; recordCall appends the current time
\* and removes nothing.
C25_CanCallExact ==
  /\ ret.op = "canCall" =>
       /\ ret.value <=> Len(YoungerThanWindow(ret.before, ret.at)) < call._maxCalls
       /\ ret.after = YoungerThanWindow(ret.before, ret.at)
  /\ ret.op = "recordCall" => ret.after = ret.before \o <<ret.at>>

\* canCall admits a call because a timestamp exactly 60 s old was removed
C25_Witness ==
  /\ ret.op = "canCall"
  /\ ret.value
  /\ Len(ret.before) >= call._maxCalls
  /\ \E i \in 1..Len(ret.before) : ret.at - ret.before[i] = WindowMs

RECURSIVE TotalSlept(_)
TotalSlept(sleeps) ==
  IF sleeps = <<>> THEN 0 ELSE Head(sleeps).ms + TotalSlept(Tail(sleeps))

\* C26: waitIfNeeded returns; each single sleep is at most
\* min(60000 - age(oldest) + 1000, 30000, remaining wait budget) ms; the total
\* time slept in one invocation never exceeds MAX_RATE_LIMITER_WAIT_MS; and
\* with an empty window and admission denied it returns at once without
\* sleeping.
C26_WaitBounded ==
  ret.op = "waitIfNeeded" =>
    /\ \A k \in 1..Len(ret.sleeps) :
         LET sl == ret.sleeps[k]
         IN  /\ sl.ms <= WindowMs - sl.ageOfOldestCall + WaitBufferMs
             /\ sl.ms <= MaxSleepMs
             /\ sl.ms <= MAX_RATE_LIMITER_WAIT_MS - sl.waitElapsed
    /\ TotalSlept(ret.sleeps) <= MAX_RATE_LIMITER_WAIT_MS
    /\ ret.returnedAt - ret.at <= MAX_RATE_LIMITER_WAIT_MS
    /\ (YoungerThanWindow(ret.before, ret.at) = <<>> /\ call._maxCalls <= 0) =>
         (ret.sleeps = <<>> /\ ret.returnedAt = ret.at)

\* waitIfNeeded slept twice, used up its wait budget and gave up
C26_Witness ==
  /\ ret.op = "waitIfNeeded"
  /\ Len(ret.sleeps) >= 2
  /\ TotalSlept(ret.sleeps) = MAX_RATE_LIMITER_WAIT_MS
  /\ Len(ret.after) >= call._maxCalls

\* waitIfNeeded is denied admission on an empty window and returns at once
C26_EmptyWindowDenied ==
  /\ ret.op = "waitIfNeeded"
  /\ ret.before # <<>>
  /\ YoungerThanWindow(ret.before, ret.at) = <<>>
  /\ call._maxCalls = 0
  /\ ret.sleeps = <<>>

\* HTTP 429/500/503 or a transient network failure
RetriableFailures == {RetriableHttpError, SocketTimeoutError}

\* the retry loop is about to run the iteration after a non-final one that
\* failed with error e
FailedNonFinal(E) ==
  /\ xpc = "attempt"
  /\ lastIteration.called
  /\ lastIteration.raised \in E
  /\ lastIteration.attempt < MAX_RETRIES

\* at most MAX_RETRIES calls; an extraction that has ended returned or raised;
\* when every attempt failed the failure of the last one is raised
CallsAndOutcome ==
  /\ apiCalls <= MAX_RETRIES
  /\ (xpc = "idle" /\ extractions > 0) => extraction.kind \in {"return", "throw"}
  /\ (xpc = "idle" /\ extraction.kind = "throw" /\ lastIteration.attempt = MAX_RETRIES) =>
       extraction.err = lastIteration.raised

\* a retriable failure on a non-final attempt is followed by a backoff of at
\* most MaxBackoffMs before the next iteration
BackoffAfterRetriable ==
  FailedNonFinal(RetriableFailures) =>
    (lastIteration.slept > 0 /\ lastIteration.slept <= MaxBackoffMs)

C28_FatalPropagated ==
  (lastIteration.called /\ lastIteration.raised = FatalApiError) =>
    (xpc = "idle" /\ extraction.kind = "throw" /\ extraction.err = FatalApiError)

\* C29: every AI call made by extractInvoiceData is preceded, within the same
\* attempt, by exactly one recordCall: the number of recordCall invocations
\* of an extraction is at least the number of AI calls it has started and at
\* most that number plus one.
C29_RecordBeforeCall ==
  /\ recordCalls >= apiCalls
  /\ recordCalls <= apiCalls + 1
  /\ lastIteration.called => lastIteration.recorded = 1
  /\ lastIteration.recorded \in {0, 1}

\* an attempt recorded a call and then found the deadline passed before the
\* endpoint was called
C29_Witness ==
  /\ apiCalls >= 1
  /\ recordCalls = apiCalls + 1
  /\ lastIteration.recorded = 1
  /\ ~lastIteration.called

(***************************************************************************)
(* Storage.markEmailProcessed on its own                                   *)
(***************************************************************************)
\* Largest capacity of the list in this specification (5000 in the code)
MaxKept == 3

\* the message ids marked
StoredIds == {"m1", "m2", "m3", "m4", "m5"}

\* Storage.markEmailProcessed(emailId), followed by
\* Storage.isEmailProcessed(emailId)
MarkEmailProcessed ==
  /\ \E emailId \in StoredIds :
       /\ processed' = markEmailProcessedKeeping(processed, emailId, call.keep)
       /\ ret' = [op |-> "markEmailProcessed", emailId |-> emailId,
                  before |-> processed,
                  isEmailProcessed |-> isEmailProcessed(processed', emailId)]
  /\ UNCHANGED << extractVars, recordVars, call, answerOf, allThreads, sheet, files,
                  nextFile, triggers, pc, runs, threadsToProcess, batchStart, batch,
                  batchPos, messages, result, results, consecutiveTimeouts,
                  isTimeLimitReached, elapsed, last, streak, breach, disturbed,
                  entry, messageErrors >>

\* Storage.clearProcessedEmails()
ClearProcessedEmails ==
  /\ processed # <<>>
  /\ processed' = clearProcessedEmails
  /\ ret' = [op |-> "clearProcessedEmails", emailId |-> "none",
             before |-> processed, isEmailProcessed |-> FALSE]
  /\ UNCHANGED << extractVars, recordVars, call, answerOf, allThreads, sheet, files,
                  nextFile, triggers, pc, runs, threadsToProcess, batchStart, batch,
                  batchPos, messages, result, results, consecutiveTimeouts,
                  isTimeLimitReached, elapsed, last, streak, breach, disturbed,
                  entry, messageErrors >>

NextStorage ==
  \/ MarkEmailProcessed
  \/ ClearProcessedEmails

InitStorage ==
  /\ answerOf = Mailbox(AcmeAnswer, AcmeAnswer, AcmeAnswer)
  /\ allThreads = Threads
  /\ PipelineStart
  /\ ExtractStart
  /\ RecordStart
  /\ call \in { [op |-> "Storage", keep |-> k] : k \in 1..MaxKept }
  /\ ret = NotCalled

SpecStorage == InitStorage /\ [][NextStorage]_vars

\* no id occurs twice in the list
NoIdTwice(ids) == \A i, j \in 1..Len(ids) : ids[i] = ids[j] => i = j

\* position of an id in a list without duplicates
PositionIn(ids, emailId) == CHOOSE i \in 1..Len(ids) : ids[i] = emailId

\* the ids of a list
IdsOf(ids) == { ids[i] : i \in 1..Len(ids) }

\* C30: after any sequence of markEmailProcessed calls the processed-id list
\* contains no id twice and at most the capacity (5000 in the code); when a
\* new id is added to a full list the oldest id is the one evicted, the
\* relative order of the others is kept, and the id just marked is reported
\* as processed by isEmailProcessed.
C30_CappedOrderedSet ==
  /\ NoIdTwice(processed)
  /\ Len(processed) <= call.keep
  /\ ret.op = "markEmailProcessed" =>
       /\ ret.isEmailProcessed
       /\ (Len(ret.before) = call.keep /\ ret.emailId \notin IdsOf(ret.before)) =>
            /\ IdsOf(processed) = (IdsOf(ret.before) \ {ret.before[1]}) \cup {ret.emailId}
            /\ \A a, b \in IdsOf(ret.before) \ {ret.before[1]} :
                 PositionIn(ret.before, a) < PositionIn(ret.before, b)
                   => PositionIn(processed, a) < PositionIn(processed, b)
            /\ processed[Len(processed)] = ret.emailId

\* a new id was added to a full list of three ids
C30_Witness ==
  /\ ret.op = "markEmailProcessed"
  /\ Len(ret.before) = call.keep
  /\ call.keep >= 3
  /\ ret.emailId \notin IdsOf(ret.before)
  /\ ret.before[1] \notin IdsOf(processed)
  /\ ret.isEmailProcessed

\* every call of the endpoint that is explored ends within the client-side
\* timeout
CallsObeyClientTimeout == \A d \in CallTimes : d <= ClientTimeoutMs

\* the time, since extractInvoiceData was entered, at which the call of the
\* last iteration of the retry loop resolved
ResolvedAfter == (now - lastIteration.slept) - startTime

\* C31: every AI call started during a message's processing resolves before
\* the per-message deadline passes: no call is still in flight later than
\* MAX_INVOICE_PROCESSING_TIME_MS after the processing of the message began
\* (which is not later than the entry of extractInvoiceData), given that each
\* call obeys the client-side timeout.
C31_CallResolvedBeforeDeadline ==
  (CallsObeyClientTimeout /\ lastIteration.called) =>
    ResolvedAfter <= MAX_INVOICE_PROCESSING_TIME_MS

(***************************************************************************)
(* Content assembly of processMessage on its own                           *)
(***************************************************************************)
\* attachments a message may carry: a PDF by content type, a PDF by the
\* extension of its name only, a PDF by content type without extension, an
\* image and a text file
CandidateAttachments ==
  { Attachment(<<"s","c","a","n",".","p","d","f">>, "application/pdf", <<>>),
    Attachment(<<"F","-","1","0","9","8","3",".","P","D","F">>,
               "application/octet-stream", <<"1","0","9","8","3">>),
    Attachment(<<"d","o","c">>, "application/pdf", <<>>),
    Attachment(<<"l","o","g","o",".","p","n","g">>, "image/png", <<>>),
    Attachment(<<"n","o","t","e",".","t","x","t">>, "text/plain", <<>>) }

\* largest number of attachments of a message
MaxAttachments == 3

AttachmentLists ==
  UNION { [1..n -> CandidateAttachments] : n \in 0..MaxAttachments }

\* processMessage assembles the content of a message with attachments atts
CallAssembleContent ==
  /\ call = NotCalled
  /\ \E atts \in AttachmentLists :
       /\ call' = [op |-> "assembleContent", attachments |-> atts]
       /\ ret' = assembleContent(atts)
  /\ UNCHANGED << pipelineVars, extractVars, recordVars >>

NextContent == CallAssembleContent

InitContent ==
  /\ answerOf = Mailbox(AcmeAnswer, AcmeAnswer, AcmeAnswer)
  /\ allThreads = Threads
  /\ PipelineStart
  /\ ExtractStart
  /\ RecordStart
  /\ CallStart

SpecContent == InitContent /\ [][NextContent]_vars

\* the PDF attachments of a list, in order
PdfsOf(atts) == SelectSeq(atts, IsPdfAttachment)

\* with at least one PDF attachment the first PDF is the document used
FirstPdfUsed ==
  (call.op = "assembleContent" /\ PdfsOf(call.attachments) # <<>>) =>
    (ret.source = "pdf" /\ ret.attachment = PdfsOf(call.attachments)[1])

\* C32 as stated: with at least one PDF attachment the first PDF is the
\* document used; with no PDF attachment (no attachments at all, or only
\* non-PDF attachments) the email body is used as the content.
C32_BodyWhenNoPdf ==
  /\ FirstPdfUsed
  /\ (call.op = "assembleContent" /\ PdfsOf(call.attachments) = <<>>) =>
       ret.source = "body"

\* C32, amended: with at least one PDF attachment the first PDF is the
\* document used; with no attachment at all the email body is the content;
\* with attachments none of which is a PDF there is no content and the
\* message is skipped.
C32_BodyOnlyWithoutAttachments ==
  /\ FirstPdfUsed
  /\ (call.op = "assembleContent" /\ call.attachments = <<>>) => ret.source = "body"
  /\ (call.op = "assembleContent" /\ call.attachments # <<>>
        /\ PdfsOf(call.attachments) = <<>>) => ret.source = "none"

\* a message whose first attachment is no PDF and whose PDF, recognised by
\* its name only, is used
C32_Witness ==
  /\ call.op = "assembleContent"
  /\ Len(call.attachments) >= 2
  /\ ~IsPdfAttachment(call.attachments[1])
  /\ ret.source = "pdf"
  /\ ret.attachment.contentType # "application/pdf"

(***************************************************************************)
(* processMessage on a message with a PDF attachment and an empty ledger   *)
(***************************************************************************)
\* providers without alias
CreatedProveedores ==
  { <<"C","a","r","l","e","s">>, <<"A","c","m","e">>,
    <<"C","a","r","l","e","s"," ","L","o","p","e","z">> }

\* invoice numbers: plain, with a hyphen, with slashes and with a space
CreatedNumeros ==
  { <<"1","0","9","8","3">>, <<"A","-","7","9">>,
    <<"F","/","2","0","2","5","/","7">>, <<"A"," ","7","9">> }

\* comma-decimal amount strings with the value, in thousandths, each stands
\* for: <<importeSinIVA, iva, importeTotal>>
CreatedAmounts ==
  { [text  |-> << <<"7","7","8">>, <<"1","6","3",",","3","8">>, <<"8","2","4",",","6","8">> >>,
     value |-> << 778000, 163380, 824680 >>],
    [text  |-> << <<"1","0">>, <<"2",",","1">>, <<"1","2",",","1">> >>,
     value |-> << 10000, 2100, 12100 >>],
    [text  |-> << <<"0",",","5">>, <<"0",",","1","0","5">>, <<"0",",","6","0","5">> >>,
     value |-> << 500, 105, 605 >>] }

\* the messages with a PDF attachment
PdfMessages == { m \in MessageIds : assembleContent(Attachments(m)).source = "pdf" }

\* processMessage(requestId, msgData) on an empty ledger, nothing failing and
\* no time passing, but for file.setName
CallProcessMessage ==
  /\ call = NotCalled
  /\ \E m \in PdfMessages, P \in CreatedProveedores, N \in CreatedNumeros,
        a \in CreatedAmounts, setNameFails \in BOOLEAN :
       LET ans == Answer(TRUE, P, N, <<>>, Str(a.text[1]), Str(a.text[2]), Str(a.text[3]))
           r   == processMessage(m, ans, NoError, 0, 0, "none", <<>>, <<>>, {}, 0)
           saved == assembleContent(Attachments(m)).attachment.name
       IN  /\ call' = [op |-> "processMessage", msg |-> m, proveedor |-> P,
                       numeroFactura |-> N, amounts |-> a.value,
                       setNameFails |-> setNameFails]
           /\ ret' = [kind |-> r.kind, why |-> r.why, sheet |-> r.sheet,
                      processed |-> r.processed, files |-> r.files, file |-> r.file,
                      fileName |-> IF r.kind = "created"
                                   THEN renameInvoiceFile(saved, r.data, setNameFails)
                                   ELSE saved]
  /\ UNCHANGED << pipelineVars, extractVars, recordVars >>

NextCreated == CallProcessMessage

InitCreated ==
  /\ answerOf = Mailbox(AcmeAnswer, AcmeAnswer, AcmeAnswer)
  /\ allThreads = Threads
  /\ PipelineStart
  /\ ExtractStart
  /\ RecordStart
  /\ CallStart

SpecCreated == InitCreated /\ [][NextCreated]_vars

\* the rows of a sheet below the header
RowsBelowHeader(sh) == SelectSeq(sh, LAMBDA row : row.msg # "header")

\* the outcome is Created: one ledger row carrying the provider, the number
\* and the numeric amounts, one live file, and the message marked processed
CreatedWithOneRow ==
  call.op = "processMessage" =>
    /\ ret.kind = "created"
    /\ Len(RowsBelowHeader(ret.sheet)) = 1
    /\ LET row == RowsBelowHeader(ret.sheet)[1]
       IN  /\ row.proveedor = call.proveedor
           /\ row.numeroFactura = call.numeroFactura
           /\ row.importeSinIVA = Num(call.amounts[1])
           /\ row.iva = Num(call.amounts[2])
           /\ row.importeTotal = Num(call.amounts[3])
           /\ row.fileUrl = getFileUrl(ret.file)
    /\ ret.file # 0
    /\ ret.files = {ret.file}
    /\ isEmailProcessed(ret.processed, call.msg)

JVal(t, v, s, items) == [t |-> t, v |-> v, s |-> s, items |-> items]

JNull == JVal("null", 0, <<>>, <<>>)

JBool(b) == JVal("bool", IF b THEN 1 ELSE 0, <<>>, <<>>)

JNum(n) == JVal("num", n, <<>>, <<>>)

JStr(x) == JVal("str", 0, x, <<>>)

JArr(items) == JVal("arr", 0, <<>>, items)

\* an object with no property (key = <<>>) or with one property
JObj(key, items) == JVal("obj", 0, key, items)

\* the decimal digits of n >= 0
RECURSIVE DigitsOf(_)
DigitsOf(n) ==
  IF n < 10 THEN <<DigitChars[n + 1]>>
  ELSE DigitsOf(n \div 10) \o <<DigitChars[(n % 10) + 1]>>

\* String(n) for an integer n
NumberToString(n) == IF n < 0 THEN <<"-">> \o DigitsOf(-n) ELSE DigitsOf(n)

\* JSON.stringify of null, a boolean, a number or a string without quotes
\* and backslashes
StringifyScalar(x) ==
  IF x.t = "null" THEN <<"n","u","l","l">>
  ELSE IF x.t = "bool" THEN (IF x.v = 1 THEN <<"t","r","u","e">> ELSE <<"f","a","l","s","e">>)
  ELSE IF x.t = "num" THEN NumberToString(x.v)
  ELSE <<"\"">> \o x.s \o <<"\"">>

\* the elements of an array, stringified and separated by commas
RECURSIVE StringifyItems(_)
StringifyItems(items) ==
  IF items = <<>> THEN <<>>
  ELSE IF Len(items) = 1 THEN StringifyScalar(items[1])
  ELSE StringifyScalar(items[1]) \o <<",">> \o StringifyItems(Tail(items))

\* JSON.stringify
JSONstringify(x) ==
  IF x.t = "arr" THEN <<"[">> \o StringifyItems(x.items) \o <<"]">>
  ELSE IF x.t = "obj"
  THEN IF x.s = <<>> THEN <<"{","}">>
       ELSE <<"{","\"">> \o x.s \o <<"\"",":">> \o StringifyScalar(x.items[1]) \o <<"}">>
  ELSE StringifyScalar(x)

\* a JSON integer: an optional minus sign, then 0 or digits not starting with 0
IsJsonInt(text) ==
  LET digits == IF text # <<>> /\ Head(text) = "-" THEN Tail(text) ELSE text
  IN  /\ digits # <<>>
      /\ \A i \in 1..Len(digits) : IsDigit(digits[i])
      /\ (Len(digits) > 1 => digits[1] # "0")

\* a JSON string without escapes
IsJsonString(text) ==
  /\ Len(text) >= 2
  /\ text[1] = "\""
  /\ text[Len(text)] = "\""
  /\ \A i \in 2..(Len(text) - 1) : text[i] \notin {"\"", "\\"}

ParseFailed == [ok |-> FALSE, value |-> JNull]

Parsed(x) == [ok |-> TRUE, value |-> x]

\* JSON.parse of a text that is a literal, an integer or a string
ParseScalar(text) ==
  IF text = <<"n","u","l","l">> THEN Parsed(JNull)
  ELSE IF text = <<"t","r","u","e">> THEN Parsed(JBool(TRUE))
  ELSE IF text = <<"f","a","l","s","e">> THEN Parsed(JBool(FALSE))
  ELSE IF IsJsonInt(text)
  THEN Parsed(JNum(IF Head(text) = "-" THEN 0 - DigitsToInt(Tail(text))
                   ELSE DigitsToInt(text)))
  ELSE IF IsJsonString(text) THEN Parsed(JStr(SubSeq(text, 2, Len(text) - 1)))
  ELSE ParseFailed

\* the pieces of a text between its commas
RECURSIVE SplitAtCommas(_)
SplitAtCommas(text) ==
  IF \E i \in 1..Len(text) : text[i] = ","
  THEN LET p == CHOOSE i \in 1..Len(text) :
                  text[i] = "," /\ \A j \in 1..(i - 1) : text[j] # ","
       IN  <<SubSeq(text, 1, p - 1)>> \o SplitAtCommas(SubSeq(text, p + 1, Len(text)))
  ELSE <<text>>

\* position of the first colon of a text, 0 when there is none
FirstColon(text) ==
  IF \E i \in 1..Len(text) : text[i] = ":"
  THEN CHOOSE i \in 1..Len(text) : text[i] = ":" /\ \A j \in 1..(i - 1) : text[j] # ":"
  ELSE 0

\* JSON.parse, for texts without white space, fractions and exponents, whose
\* arrays hold scalars and whose objects hold at most one scalar property,
\* strings holding neither comma nor colon
JSONparse(text) ==
  IF Len(text) >= 2 /\ text[1] = "[" /\ text[Len(text)] = "]"
  THEN LET inner == SubSeq(text, 2, Len(text) - 1)
           pieces == IF inner = <<>> THEN <<>> ELSE SplitAtCommas(inner)
       IN  IF \A i \in 1..Len(pieces) : ParseScalar(pieces[i]).ok
           THEN Parsed(JArr([i \in 1..Len(pieces) |-> ParseScalar(pieces[i]).value]))
           ELSE ParseFailed
  ELSE IF Len(text) >= 2 /\ text[1] = "{" /\ text[Len(text)] = "}"
  THEN LET inner == SubSeq(text, 2, Len(text) - 1)
           c == FirstColon(inner)
       IN  IF inner = <<>> THEN Parsed(JObj(<<>>, <<>>))
           ELSE IF c > 0 /\ IsJsonString(SubSeq(inner, 1, c - 1))
                   /\ ParseScalar(SubSeq(inner, c + 1, Len(inner))).ok
           THEN Parsed(JObj(SubSeq(inner, 2, c - 2),
                            <<ParseScalar(SubSeq(inner, c + 1, Len(inner))).value>>))
           ELSE ParseFailed
  ELSE ParseScalar(text)

\* a property that was never set: getProperty returns null
NoProperty == [has |-> FALSE, text |-> <<>>]

Property(text) == [has |-> TRUE, text |-> text]

\* what Storage.set hands to setProperty, as the string the property then
\* holds: JSON.stringify(value) for typeof value === 'object', String(value)
\* for a number or a boolean, the string itself for a string
stored(value) ==
  IF value.t \in {"arr", "obj", "null"} THEN JSONstringify(value)
  ELSE IF value.t = "str" THEN value.s
  ELSE StringifyScalar(value)

\* Storage.get
StorageGet(props, key, defaultValue) ==
  IF ~props[key].has THEN defaultValue
  ELSE IF JSONparse(props[key].text).ok THEN JSONparse(props[key].text).value
  ELSE JStr(props[key].text)

\* Storage.set: the properties after the call
StorageSet(props, key, value) == [props EXCEPT ![key] = Property(stored(value))]

\* the keys used
StorageKeys == {"k1", "k2"}

\* the values stored: numbers, booleans, strings, arrays and objects
StorableValues ==
  { JNum(0), JNum(42), JNum(-1), JBool(TRUE), JBool(FALSE),
    JStr(<<>>), JStr(<<"h","e","l","l","o">>), JStr(<<"4","2">>),
    JStr(<<"t","r","u","e">>), JStr(<<"[","7","]">>),
    JArr(<<>>), JArr(<<JStr(<<"m","1">>), JStr(<<"m","2">>)>>), JArr(<<JNum(7)>>),
    JObj(<<"t","e","s","t">>, <<JBool(TRUE)>>), JObj(<<>>, <<>>) }

\* the defaults passed to get
DefaultValues == { JNull, JArr(<<>>) }

\* no value was ever set for a key
NeverSet == JVal("unset", 0, <<>>, <<>>)

\* Storage.set(key, value)
StorageSetCall ==
  /\ \E key \in StorageKeys, value \in StorableValues :
       /\ call' = [call EXCEPT !._props = StorageSet(call._props, key, value),
                               !.written = [call.written EXCEPT ![key] = value]]
       /\ ret' = [op |-> "set", key |-> key, value |-> value, defaultValue |-> JNull]
  /\ UNCHANGED << pipelineVars, extractVars, recordVars >>

\* Storage.get(key, defaultValue)
StorageGetCall ==
  /\ \E key \in StorageKeys, defaultValue \in DefaultValues :
       ret' = [op |-> "get", key |-> key,
               value |-> StorageGet(call._props, key, defaultValue),
               defaultValue |-> defaultValue]
  /\ UNCHANGED << pipelineVars, extractVars, recordVars, call >>

NextProperties ==
  \/ StorageSetCall
  \/ StorageGetCall

InitProperties ==
  /\ answerOf = Mailbox(AcmeAnswer, AcmeAnswer, AcmeAnswer)
  /\ allThreads = Threads
  /\ PipelineStart
  /\ ExtractStart
  /\ RecordStart
  /\ call = [op |-> "Storage", _props |-> [key \in StorageKeys |-> NoProperty],
             written |-> [key \in StorageKeys |-> NeverSet]]
  /\ ret = NotCalled

SpecProperties == InitProperties /\ [][NextProperties]_vars

\* C34: Storage.get(key) called after Storage.set(key, v) returns a value
\* equal to v, for every storable value v (object, array, number, boolean or
\* string), and Storage.get(key, d) returns d when the key was never set.
C34_RoundTrip ==
  ret.op = "get" =>
    IF call.written[ret.key] = NeverSet THEN ret.value = ret.defaultValue
    ELSE ret.value = call.written[ret.key]

\* amount strings with thousands separators and the value, in thousandths,
\* each stands for: "1.234,56" is 1234.56 and "1,234,567" is 1234567
ThousandsAmounts ==
  { [text |-> <<"1",".","2","3","4",",","5","6">>, value |-> 1234560],
    [text |-> <<"1",",","2","3","4",",","5","6","7">>, value |-> 1234567000] }

\* C35: the normalizer handles thousands separators: an amount string with a
\* point as thousands separator and a comma as decimal separator, or with
\* several commas, is normalized to the value it stands for and not to a
\* different number.
C35_ThousandsSeparators ==
  stage # "parsed" =>
    \A f \in AmountFields, a \in ThousandsAmounts :
      parsed[f] = Str(a.text) => invoiceData[f] = Num(a.value)

\* C36: no artifact leak: whenever the processing of a message ends in any
\* outcome other than Created (validator rejection, duplicate, timeout at any
\* level, or any other exception), every file saved or generated in storage
\* for that message during the attempt has been deleted by the time the
\* attempt ends.
C36_NoArtifactLeak ==
  (last.kind \in {"null", "throw"} /\ last.file # 0) => last.file \notin files

(***************************************************************************)
(* Runs started by the triggers of the entry point.  Here `triggers` holds *)
(* the triggers that will still fire: a one-shot trigger that has fired    *)
(* does not invoke the entry point again.                                  *)
(***************************************************************************)
\* a trigger of processInvoiceEmails fires and the run begins
TriggerFires ==
  /\ pc = "idle"
  /\ runs < MaxRuns
  /\ \E t \in triggers :
       triggers' = IF t = "after60s" THEN triggers \ {t} ELSE triggers
  /\ BeginRun
  /\ entry' = "processInvoiceEmails"
  /\ UNCHANGED << extractVars, recordVars, callVars, allThreads, disturbed, answerOf,
                  sheet, processed, files, nextFile, last >>

NextSchedule ==
  \/ setupTrigger
  \/ TriggerFires
  \/ NextBatch
  \/ EndBatch
  \/ EnterThread
  \/ ThreadFails
  \/ ProcessNextMessage
  \/ ThreadDone
  \/ FinishRun

InitSchedule ==
  /\ answerOf = Mailbox(AcmeAnswer, CarlesAnswer, NotInvoiceAnswer)
  /\ allThreads = Threads
  /\ PipelineStart
  /\ ExtractStart
  /\ RecordStart
  /\ CallStart

SpecSchedule == InitSchedule /\ [][NextSchedule]_vars

\* C37: once setupTrigger has installed the periodic trigger, a trigger for
\* processInvoiceEmails that will invoke it again exists at the end of every
\* later run, whatever sequence of runs, deadline hits and continuations
\* occurs.
C37_TriggerAlwaysLeft ==
  (pc = "idle" /\ runs > 0) => triggers # {}

\* no row of sheet sh has the number or the file reference of the candidate
MatchesNoRow(sh, numeroFactura, fileUrl) ==
  \A i \in 1..Len(sh) :
    /\ trim(sh[i].numeroFactura) # trim(numeroFactura)
    /\ sh[i].fileUrl # fileUrl

\* C38: the duplicate check depends only on the candidate and on the rows
\* that match it: for a candidate whose provider contains no alias, whose
\* invoice number equals no row's number and whose file reference equals no
\* row's reference, invoiceExists returns false whatever the providers of
\* the existing rows are.
C38_UnrelatedNotBlocked ==
  ( /\ call.op = "invoiceExists"
    /\ ret # NotCalled
    /\ ~MentionsEmisora(trim(toLowerCase(call.proveedor)))
    /\ MatchesNoRow(_getSheet(call.sheet), call.numeroFactura, call.fileUrl) )
  => ~ret.value

\* C39: an unknown amount stays distinguishable from zero in the ledger:
\* when the record persisted for a message has a monetary field equal to
\* null, the row appended for it does not carry the number 0 in that column.
C39_UnknownIsNotZero ==
  \A i \in DataRows :
    LET d == answerOf[sheet[i].msg]
    IN  /\ d.importeSinIVA = Null => sheet[i].importeSinIVA # Num(0)
        /\ d.iva = Null => sheet[i].iva # Num(0)
        /\ d.importeTotal = Null => sheet[i].importeTotal # Num(0)

(***************************************************************************)
(* processMessage on its own, on messages that are and that are not        *)
(* rejected before the extraction, with every failure and timing of the    *)
(* pipeline, on ledgers, processed ids and files already there.            *)
(***************************************************************************)
\* m5 has a PDF named after an issuing entity, m7 and m8 have no attachment
\* and a subject or body of an order confirmation
RejectableMessages == MessageIds \cup {"m5", "m7", "m8"}

RejectionLedgers ==
  { <<>>, <<HeaderRow>>,
    <<HeaderRow, LedgerRow(<<"A","c","m","e">>, <<"1","0","9","8","3">>, getFileUrl(1))>>,
    <<HeaderRow, LedgerRow(<<"A","c","m","e">>, <<"A","-","7","9">>, getFileUrl(1))>> }

\* extractInvoiceData was entered during the call that ended as r: it
\* returned, or it raised one of its failures
ExtractionCalled(r) == r.answered \/ r.err \in ExtractionFailures

\* processMessage(requestId, msgData)
CallProcessMessageOn ==
  /\ call = NotCalled
  /\ \E m \in RejectableMessages, ans \in {AcmeAnswer, NotInvoiceAnswer},
        ext \in ExtractionFailures \cup {NoError}, d \in Timings, fault \in Faults,
        sh \in RejectionLedgers, ids \in {<<>>, <<"m2">>}, nf \in {0, 1} :
       LET fs == 1..nf
           r  == processMessage(m, ans, ext, d[1], d[2], fault, sh, ids, fs, nf)
       IN  /\ call' = [op |-> "processMessageOn", msg |-> m, sheet |-> sh,
                       processed |-> ids, files |-> fs]
           /\ ret' = [kind |-> r.kind, why |-> r.why, sheet |-> r.sheet,
                      processed |-> r.processed, files |-> r.files,
                      extractionCalled |-> ExtractionCalled(r)]
  /\ UNCHANGED << pipelineVars, extractVars, recordVars >>

NextRejected == CallProcessMessageOn

InitRejected ==
  /\ answerOf = Mailbox(AcmeAnswer, AcmeAnswer, AcmeAnswer)
  /\ allThreads = Threads
  /\ PipelineStart
  /\ ExtractStart
  /\ RecordStart
  /\ CallStart

SpecRejected == InitRejected /\ [][NextRejected]_vars

\* the first attachment of message m that is a PDF
FirstPdf(m) ==
  LET atts == Attachments(m)
  IN  atts[CHOOSE i \in 1..Len(atts) :
             /\ IsPdfAttachment(atts[i])
             /\ \A j \in 1..(i - 1) : ~IsPdfAttachment(atts[j])]

\* message m is one of the four cases rejected before the extraction, on
\* the ledger sh
RejectedBeforeExtraction(m, sh) ==
  LET atts == Attachments(m)
      hasPdf == \E i \in 1..Len(atts) : IsPdfAttachment(atts[i])
  IN  \/ atts # <<>> /\ ~hasPdf
      \/ hasPdf /\ MentionsEmisora(toLowerCase(FirstPdf(m).name))
      \/ /\ hasPdf
         /\ Len(FirstPdf(m).potentialInvoiceNum) >= 3
         /\ \E row \in WindowRows(sh) :
              trim(row.numeroFactura) = FirstPdf(m).potentialInvoiceNum
      \/ /\ atts = <<>>
         /\ \E pattern \in nonInvoicePatterns :
              \/ test(pattern, toLowerCase(Subject(m)))
              \/ test(pattern, toLowerCase(Body(m)))

\* C40: a message rejected before extraction (non-PDF-only attachments,
\* alias in the attachment filename, filename-derived duplicate, or a
\* non-invoice subject/body pattern) causes no AI call, no recordCall, no
\* file saved to storage, no ledger row and no change to the processed-id
\* set.
C40_RejectedWithoutEffect ==
  (call.op = "processMessageOn" /\ RejectedBeforeExtraction(call.msg, call.sheet)) =>
    /\ ret.kind = "null"
    /\ ~ret.extractionCalled
    /\ ret.files = call.files
    /\ ret.sheet = call.sheet
    /\ ret.processed = call.processed

\* a message whose file name gives the number of a row is rejected while
\* the ledger, a file and a processed id are there
C40_Witness ==
  /\ call.op = "processMessageOn"
  /\ ret.why = "filenameDuplicate"
  /\ Len(call.sheet) = 2
  /\ call.files # {}
  /\ call.processed # <<>>

====
